---- MODULE Spec2Model ----
(***************************************************************************)
(* Pagination engine of the reader (src/lib/view/pagination.ts): Page      *)
(* places content blocks on one fixed-size page, Paginator.calculatePages  *)
(* drives pages over an ordered block sequence.                            *)
(*                                                                         *)
(* Heights and widths are pixels.  Text is a sequence of one-character     *)
(* strings, so that splitting into words and joining words with a single   *)
(* space are computed, not assumed.                                        *)
(***************************************************************************)
EXTENDS Integers, Sequences, FiniteSets, TLC

VARIABLES
    paginator,     \* Paginator fields: containerWidth, containerHeight, fontSize, lineHeight
    glyphWidth,    \* the rendering surface: width of one character under each canvas font
    blocks,        \* the argument of calculatePages
    index,         \* position of the for-loop over blocks (1-based, next block to take)
    pages,         \* local `pages` of calculatePages: the sealed pages, in push order
    currentPage,   \* local `currentPage`
    pageResult,    \* local `pageResult`: result of the last tryAddBlock call
    lastCall,      \* history: the page as it was before the last tryAddBlock call, and its argument
    created,       \* history: number of Page objects constructed so far
    pc,            \* "loop" | "done" | "error"
    run,           \* which calculatePages call on this Paginator is running (1 or 2)
    firstRun,      \* history: the block lists of the pages the first call returned
    heap,          \* the block objects that exist, by reference (position in the sequence)
    refs,          \* references held: by the page's blocks array, by the last result, and
                   \* the reference passed to the last tryAddBlock call
    heapBefore,    \* history: the heap as it was before the last tryAddBlock call
    calls,         \* number of tryAddBlock calls a direct caller of Page has made
    book,          \* the EPUB behind a BookReader: what each chapter's content parses to
    chapterCache,  \* BookReader.chapterCache: chapter id -> pages
    tasks,         \* the BookReader calls that are waiting at their await, by caller
    reply,         \* history: what the last BookReader call to finish gave its caller
    rendered,      \* history: the blocks of the page last rendered and what render() returned
    document,      \* the body of the document DOMParser made of the chapter's markup
    parsed,        \* what HTMLToBlocksParser.parse returned for `document`
    twin,          \* a second Page, of other TextMetrics, given the same blocks
    home           \* state of the reader view (Home, BookView): pages, pageIndex, targetId

\* what belongs to the caller that calls calculatePages a second time
runVars == <<run, firstRun>>

\* block objects and references, followed when Page is called directly
heapVars == <<heap, refs, heapBefore, calls>>

readerVars == <<book, chapterCache, tasks, reply>>

\* what lies outside the pagination engine
viewVars == <<rendered, document, parsed>>

appVars == <<readerVars, viewVars, twin, home>>

vars == <<paginator, glyphWidth, blocks, index, pages, currentPage, pageResult,
          lastCall, created, pc, runVars, heapVars, appVars>>

----------------------------------------------------------------------------
(* Bounds of the model *)

MaxBlocks == 2     \* longest input block sequence
MaxSegments == 2   \* most segments in one RichText block
MaxPages == 6      \* cap on sealed pages (the retry loop of calculatePages has none)
MaxCalls == 4      \* most tryAddBlock calls of a direct caller of Page

----------------------------------------------------------------------------
(* Program constants *)

BASE_FONT_SIZE_PX == 24
\* LINE_HEIGHT_FACTOR is 5 / 3; it is only used in BASE_FONT_SIZE_PX * LINE_HEIGHT_FACTOR
LINE_HEIGHT_FACTOR_NUM == 5
LINE_HEIGHT_FACTOR_DEN == 3

----------------------------------------------------------------------------
(* Text: String.split(/(\s+)/).filter(word => word.trim() !== ""), join(" ") *)

IsWhitespace(ch) == ch = " "

RECURSIVE SplitFrom(_, _, _, _)
SplitFrom(text, k, cur, acc) ==
    IF k > Len(text)
    THEN IF cur = <<>> THEN acc ELSE Append(acc, cur)
    ELSE IF IsWhitespace(text[k])
         THEN SplitFrom(text, k + 1, <<>>, IF cur = <<>> THEN acc ELSE Append(acc, cur))
         ELSE SplitFrom(text, k + 1, Append(cur, text[k]), acc)

\* the words of a segment text: its maximal runs of non-whitespace characters
SplitWords(text) == SplitFrom(text, 1, <<>>, <<>>)

\* faulty variant of JoinWords: join("") in place of join(" ")
RECURSIVE JoinWordsNoSeparator(_)
JoinWordsNoSeparator(words) ==
    IF words = <<>> THEN <<>>
    ELSE words[1] \o JoinWordsNoSeparator(Tail(words))

RECURSIVE JoinWords(_)
JoinWords(words) ==
    IF words = <<>> THEN <<>>
    ELSE IF Len(words) = 1 THEN words[1]
    ELSE words[1] \o <<" ">> \o JoinWords(Tail(words))

\* Array.prototype.slice(from, to) with 0-based, end-exclusive indices
Slice(s, from, to) == SubSeq(s, from + 1, to)

----------------------------------------------------------------------------
(* Content blocks *)

Heading(level) ==
    [type |-> "heading", content |-> <<"h">>, metadata |-> [level |-> level]]

Image(width, height) ==
    [type |-> "image", src |-> "img",
     metadata |-> [dimensions |-> [width |-> width, height |-> height]]]

Segment(text, bold) ==
    [text |-> text, style |-> [bold |-> bold, italic |-> FALSE, underline |-> FALSE]]

RichText(segments) ==
    [type |-> "richtext", segments |-> segments, metadata |-> [tag |-> "p"]]

----------------------------------------------------------------------------
(* Page *)

\* new Page(textMetrics); `id` is the identity of the object (creation order)
NewPage(id, textMetrics) ==
    [id |-> id, blocks |-> <<>>, remainingHeight |-> textMetrics.containerHeight]

PageCompleted(block) == [type |-> "page-completed", remainingBlock |-> block]
PageHasSpace(height) == [type |-> "page-has-space", remainingHeight |-> height]
Throw(message) == [type |-> "throw", message |-> message]

\* Math.ceil(a / b) for a >= 0, b > 0
CeilDiv(a, b) == (a + b - 1) \div b

\* the textMetrics object calculatePages builds from the Paginator's fields
TextMetricsOf(p) ==
    [containerWidth |-> p.containerWidth,
     containerHeight |-> p.containerHeight,
     fontSize |-> p.fontSize,
     lineHeight |-> p.lineHeight,
     paragraphSpacing |-> CeilDiv(p.fontSize * 4, 3)]

\* scaleFactor = 2.5 - (level - 1) * 0.25 = (10 - (level - 1)) / 4; the font
\* sizes of the model keep fontSize * lineHeight a multiple of 4
calculateHeadingHeight(tm, level) ==
    (tm.fontSize * tm.lineHeight * (10 - (level - 1))) \div 4

\* dimensions.height * Math.min(1, containerWidth / dimensions.width); a width
\* of 0 divides to Infinity, so the factor is 1
calculateImageHeight(tm, dimensions) ==
    IF dimensions.width <= tm.containerWidth
    THEN dimensions.height
    ELSE (dimensions.height * tm.containerWidth) \div dimensions.width

\* faulty variant of tryAddHeadingBlock: the blocks.length > 0 test is missing
tryAddHeadingBlockAnywhere(tm, page, block) ==
    LET headingHeight == calculateHeadingHeight(tm, block.metadata.level) IN
    IF headingHeight > page.remainingHeight
    THEN [page |-> page, result |-> PageCompleted(block)]
    ELSE [page |-> [page EXCEPT !.blocks = Append(@, block),
                                !.remainingHeight = @ - headingHeight],
          result |-> PageHasSpace(page.remainingHeight - headingHeight)]

\* faulty variant of tryAddHeadingBlock: the headingHeight > remainingHeight
\* test is missing
tryAddHeadingBlockNoRoomTest(tm, page, block) ==
    LET headingHeight == calculateHeadingHeight(tm, block.metadata.level) IN
    IF Len(page.blocks) > 0
    THEN [page |-> page, result |-> PageCompleted(block)]
    ELSE [page |-> [page EXCEPT !.blocks = Append(@, block),
                                !.remainingHeight = @ - headingHeight],
          result |-> PageHasSpace(page.remainingHeight - headingHeight)]

tryAddHeadingBlock(tm, page, block) ==
    LET headingHeight == calculateHeadingHeight(tm, block.metadata.level) IN
    IF Len(page.blocks) > 0
    THEN [page |-> page, result |-> PageCompleted(block)]
    ELSE IF headingHeight > page.remainingHeight
    THEN [page |-> page, result |-> PageCompleted(block)]
    ELSE [page |-> [page EXCEPT !.blocks = Append(@, block),
                                !.remainingHeight = @ - headingHeight],
          result |-> PageHasSpace(page.remainingHeight - headingHeight)]

\* faulty variant of tryAddImageBlock: the imageHeight > remainingHeight
\* test is missing
tryAddImageBlockNoRoomTest(tm, page, block) ==
    LET imageHeight == calculateImageHeight(tm, block.metadata.dimensions) IN
    IF imageHeight > tm.containerHeight
    THEN [page |-> page,
          result |-> Throw("SHOULD NOT OCCUR Image is too large to fit on a page")]
    ELSE [page |-> [page EXCEPT !.blocks = Append(@, block),
                                !.remainingHeight = @ - imageHeight],
          result |-> PageHasSpace(page.remainingHeight - imageHeight)]

tryAddImageBlock(tm, page, block) ==
    LET imageHeight == calculateImageHeight(tm, block.metadata.dimensions) IN
    IF imageHeight > tm.containerHeight
    THEN [page |-> page,
          result |-> Throw("SHOULD NOT OCCUR Image is too large to fit on a page")]
    ELSE IF imageHeight > page.remainingHeight
    THEN [page |-> page, result |-> PageCompleted(block)]
    ELSE [page |-> [page EXCEPT !.blocks = Append(@, block),
                                !.remainingHeight = @ - imageHeight],
          result |-> PageHasSpace(page.remainingHeight - imageHeight)]

\* updateCanvasFont: the font string set on the canvas context for a segment
updateCanvasFont(segment) ==
    IF segment.style.bold /\ segment.style.italic THEN "bold italic 24px ui-serif"
    ELSE IF segment.style.bold THEN "bold 24px ui-serif"
    ELSE IF segment.style.italic THEN "italic 24px ui-serif"
    ELSE "24px ui-serif"

\* context.measureText(str).width under the font set by updateCanvasFont
measureText(font, str) == Len(str) * glyphWidth[font]

\* Page.BASE_FONT_SIZE_PX * Page.LINE_HEIGHT_FACTOR
lineHeight == (BASE_FONT_SIZE_PX * LINE_HEIGHT_FACTOR_NUM) \div LINE_HEIGHT_FACTOR_DEN

\* faulty variant of splitBlock: the wordIndex === 0 case is missing, so a
\* split at a segment boundary divides the segment into an empty half and a
\* re-joined half
splitBlockAlwaysHalves(block, segmentIndex, wordIndex) ==
    IF segmentIndex >= Len(block.segments)
    THEN Throw("SHOULD NOT OCCUR segmentIndex is out of bounds")
    ELSE
    LET segment == block.segments[segmentIndex + 1]
        words == SplitWords(segment.text)
    IN  IF wordIndex >= Len(words)
        THEN Throw("SHOULD NOT OCCUR wordIndex is out of bounds")
        ELSE [type |-> "split",
              completedBlock |->
                  [block EXCEPT !.segments =
                      Append(Slice(block.segments, 0, segmentIndex),
                             [segment EXCEPT !.text =
                                 JoinWords(Slice(words, 0, wordIndex))])],
              remainingBlock |->
                  [block EXCEPT !.segments =
                      <<[segment EXCEPT !.text =
                            JoinWords(Slice(words, wordIndex, Len(words)))]>>
                          \o Slice(block.segments, segmentIndex + 1,
                                   Len(block.segments))]]

\* faulty variant of splitBlock: the remainder keeps the whole split segment
\* after its second half (slice(segmentIndex) in place of slice(segmentIndex + 1))
splitBlockKeepsSegment(block, segmentIndex, wordIndex) ==
    IF segmentIndex >= Len(block.segments)
    THEN Throw("SHOULD NOT OCCUR segmentIndex is out of bounds")
    ELSE
    LET segment == block.segments[segmentIndex + 1]
        words == SplitWords(segment.text)
    IN  IF wordIndex >= Len(words)
        THEN Throw("SHOULD NOT OCCUR wordIndex is out of bounds")
        ELSE IF wordIndex = 0
        THEN [type |-> "split",
              completedBlock |->
                  [block EXCEPT !.segments = Slice(block.segments, 0, segmentIndex)],
              remainingBlock |->
                  [block EXCEPT !.segments =
                      Slice(block.segments, segmentIndex, Len(block.segments))]]
        ELSE [type |-> "split",
              completedBlock |->
                  [block EXCEPT !.segments =
                      Append(Slice(block.segments, 0, segmentIndex),
                             [segment EXCEPT !.text =
                                 JoinWords(Slice(words, 0, wordIndex))])],
              remainingBlock |->
                  [block EXCEPT !.segments =
                      <<[segment EXCEPT !.text =
                            JoinWords(Slice(words, wordIndex, Len(words)))]>>
                          \o Slice(block.segments, segmentIndex, Len(block.segments))]]

\* splitBlock(segmentIndex, wordIndex) of tryAddRichTextBlock; indices are 0-based
splitBlock(block, segmentIndex, wordIndex) ==
    IF segmentIndex >= Len(block.segments)
    THEN Throw("SHOULD NOT OCCUR segmentIndex is out of bounds")
    ELSE
    LET segment == block.segments[segmentIndex + 1]
        words == SplitWords(segment.text)
    IN  IF wordIndex >= Len(words)
        THEN Throw("SHOULD NOT OCCUR wordIndex is out of bounds")
        ELSE IF wordIndex = 0
        THEN [type |-> "split",
              completedBlock |->
                  [block EXCEPT !.segments = Slice(block.segments, 0, segmentIndex)],
              remainingBlock |->
                  [block EXCEPT !.segments =
                      Slice(block.segments, segmentIndex, Len(block.segments))]]
        ELSE
        LET completedSegmentHalf ==
                [segment EXCEPT !.text = JoinWords(Slice(words, 0, wordIndex))]
            remainingSegmentHalf ==
                [segment EXCEPT !.text = JoinWords(Slice(words, wordIndex, Len(words)))]
            completedSegments ==
                Append(Slice(block.segments, 0, segmentIndex), completedSegmentHalf)
            remainingSegments ==
                <<remainingSegmentHalf>>
                    \o Slice(block.segments, segmentIndex + 1, Len(block.segments))
        IN  [type |-> "split",
             completedBlock |-> [block EXCEPT !.segments = completedSegments],
             remainingBlock |-> [block EXCEPT !.segments = remainingSegments]]

\* faulty variant of LayoutWords: the currentLineWidth > 0 part of
\* exceedsLineWidth is missing, so a word wider than the line breaks an
\* empty line too
RECURSIVE LayoutWordsNoEmptyLineTest(_, _, _, _, _, _)
LayoutWordsNoEmptyLineTest(tm, block, segmentIndex, wordIndex, currentLineWidth, remainingHeight) ==
    IF segmentIndex >= Len(block.segments)
    THEN [type |-> "fits", currentLineWidth |-> currentLineWidth,
          remainingHeight |-> remainingHeight]
    ELSE
    LET segment == block.segments[segmentIndex + 1]
        words == SplitWords(segment.text)
    IN  IF wordIndex >= Len(words)
        THEN LayoutWordsNoEmptyLineTest(tm, block, segmentIndex + 1, 0, currentLineWidth, remainingHeight)
        ELSE
        LET word == words[wordIndex + 1]
            isStartOfLine == currentLineWidth = 0
            wordToMeasure == IF isStartOfLine THEN word ELSE <<" ">> \o word
            wordWidth == measureText(updateCanvasFont(segment), wordToMeasure)
            exceedsLineWidth ==
                currentLineWidth + wordWidth > tm.containerWidth
        IN  IF ~exceedsLineWidth
            THEN LayoutWordsNoEmptyLineTest(tm, block, segmentIndex, wordIndex + 1,
                             currentLineWidth + wordWidth, remainingHeight)
            ELSE IF remainingHeight - lineHeight >= lineHeight
            THEN LayoutWordsNoEmptyLineTest(tm, block, segmentIndex, wordIndex + 1,
                             wordWidth, remainingHeight - lineHeight)
            ELSE [type |-> "break", segmentIndex |-> segmentIndex,
                  wordIndex |-> wordIndex,
                  remainingHeight |-> remainingHeight - lineHeight]

\* The two nested loops of tryAddRichTextBlock over block.segments.entries()
\* and words.entries(), from (segmentIndex, wordIndex) on, with the locals
\* currentLineWidth and this.remainingHeight.  Ends "fits" when every word is
\* consumed, "break" at the word that forces the page break.
RECURSIVE LayoutWords(_, _, _, _, _, _)
LayoutWords(tm, block, segmentIndex, wordIndex, currentLineWidth, remainingHeight) ==
    IF segmentIndex >= Len(block.segments)
    THEN [type |-> "fits", currentLineWidth |-> currentLineWidth,
          remainingHeight |-> remainingHeight]
    ELSE
    LET segment == block.segments[segmentIndex + 1]
        words == SplitWords(segment.text)
    IN  IF wordIndex >= Len(words)
        THEN LayoutWords(tm, block, segmentIndex + 1, 0, currentLineWidth, remainingHeight)
        ELSE
        LET word == words[wordIndex + 1]
            isStartOfLine == currentLineWidth = 0
            wordToMeasure == IF isStartOfLine THEN word ELSE <<" ">> \o word
            wordWidth == measureText(updateCanvasFont(segment), wordToMeasure)
            exceedsLineWidth ==
                currentLineWidth + wordWidth > tm.containerWidth /\ currentLineWidth > 0
        IN  IF ~exceedsLineWidth
            THEN LayoutWords(tm, block, segmentIndex, wordIndex + 1,
                             currentLineWidth + wordWidth, remainingHeight)
            ELSE IF remainingHeight - lineHeight >= lineHeight
            THEN LayoutWords(tm, block, segmentIndex, wordIndex + 1,
                             wordWidth, remainingHeight - lineHeight)
            ELSE [type |-> "break", segmentIndex |-> segmentIndex,
                  wordIndex |-> wordIndex,
                  remainingHeight |-> remainingHeight - lineHeight]

\* faulty variant of tryAddRichTextBlock: the last line of a block that fits
\* is not taken off remainingHeight
tryAddRichTextBlockNoLastLine(tm, page, block) ==
    IF ~(page.remainingHeight >= lineHeight)
    THEN [page |-> page, result |-> PageCompleted(block)]
    ELSE
    LET layout == LayoutWords(tm, block, 0, 0, 0, page.remainingHeight) IN
    IF layout.type = "break"
    THEN LET split == splitBlock(block, layout.segmentIndex, layout.wordIndex) IN
         IF split.type = "throw"
         THEN [page |-> [page EXCEPT !.remainingHeight = layout.remainingHeight],
               result |-> split]
         ELSE [page |-> [page EXCEPT !.blocks = Append(@, split.completedBlock),
                                     !.remainingHeight = layout.remainingHeight],
               result |-> PageCompleted(split.remainingBlock)]
    ELSE [page |-> [page EXCEPT !.blocks = Append(@, block),
                                !.remainingHeight = layout.remainingHeight],
          result |-> PageHasSpace(layout.remainingHeight)]

\* faulty variant of tryAddRichTextBlock: the first hasSpaceLeft test uses the
\* configured fontSize * lineHeight in place of the fixed line height
tryAddRichTextBlockConfiguredLineHeight(tm, page, block) ==
    IF ~(page.remainingHeight >= tm.fontSize * tm.lineHeight)
    THEN [page |-> page, result |-> PageCompleted(block)]
    ELSE
    LET layout == LayoutWords(tm, block, 0, 0, 0, page.remainingHeight) IN
    IF layout.type = "break"
    THEN LET split == splitBlock(block, layout.segmentIndex, layout.wordIndex) IN
         IF split.type = "throw"
         THEN [page |-> [page EXCEPT !.remainingHeight = layout.remainingHeight],
               result |-> split]
         ELSE [page |-> [page EXCEPT !.blocks = Append(@, split.completedBlock),
                                     !.remainingHeight = layout.remainingHeight],
               result |-> PageCompleted(split.remainingBlock)]
    ELSE
    LET height == IF layout.currentLineWidth > 0
                  THEN layout.remainingHeight - lineHeight
                  ELSE layout.remainingHeight
    IN  [page |-> [page EXCEPT !.blocks = Append(@, block),
                               !.remainingHeight = height],
         result |-> PageHasSpace(height)]

tryAddRichTextBlock(tm, page, block) ==
    IF ~(page.remainingHeight >= lineHeight)
    THEN [page |-> page, result |-> PageCompleted(block)]
    ELSE
    LET layout == LayoutWords(tm, block, 0, 0, 0, page.remainingHeight) IN
    IF layout.type = "break"
    THEN LET split == splitBlock(block, layout.segmentIndex, layout.wordIndex) IN
         IF split.type = "throw"
         THEN [page |-> [page EXCEPT !.remainingHeight = layout.remainingHeight],
               result |-> split]
         ELSE [page |-> [page EXCEPT !.blocks = Append(@, split.completedBlock),
                                     !.remainingHeight = layout.remainingHeight],
               result |-> PageCompleted(split.remainingBlock)]
    ELSE
    LET height == IF layout.currentLineWidth > 0
                  THEN layout.remainingHeight - lineHeight
                  ELSE layout.remainingHeight
    IN  [page |-> [page EXCEPT !.blocks = Append(@, block),
                               !.remainingHeight = height],
         result |-> PageHasSpace(height)]

\* the dispatch of tryAddBlock on block.type
AddByType(tm, page, block) ==
    CASE block.type = "heading" -> tryAddHeadingBlock(tm, page, block)
      [] block.type = "image" -> tryAddImageBlock(tm, page, block)
      [] block.type = "richtext" -> tryAddRichTextBlock(tm, page, block)
      [] OTHER -> [page |-> page, result |-> Throw("Unknown block type")]

\* faulty variant of tryAddBlock: paragraphSpacing is taken off after
\* page-completed too
tryAddBlockSpacingAlways(tm, page, block) ==
    IF page.remainingHeight <= 0
    THEN [page |-> page, result |-> PageCompleted(block)]
    ELSE
    LET added == AddByType(tm, page, block) IN
    IF added.result.type \in {"page-has-space", "page-completed"}
    THEN [page |-> [added.page EXCEPT !.remainingHeight = @ - tm.paragraphSpacing],
          result |-> added.result]
    ELSE added

\* faulty variant of tryAddBlock: the remainingHeight <= 0 test is missing
tryAddBlockNoFullTest(tm, page, block) ==
    LET added == AddByType(tm, page, block) IN
    IF added.result.type = "page-has-space"
    THEN [page |-> [added.page EXCEPT !.remainingHeight = @ - tm.paragraphSpacing],
          result |-> added.result]
    ELSE added

\* Page.tryAddBlock: the page after the call and the value returned (or thrown)
tryAddBlock(tm, page, block) ==
    IF page.remainingHeight <= 0
    THEN [page |-> page, result |-> PageCompleted(block)]
    ELSE
    LET added == AddByType(tm, page, block) IN
    IF added.result.type = "page-has-space"
    THEN [page |-> [added.page EXCEPT !.remainingHeight = @ - tm.paragraphSpacing],
          result |-> added.result]
    ELSE added

----------------------------------------------------------------------------
(* Inputs *)

\* all sequences over S of length lo..hi
SeqsOf(S, lo, hi) == UNION {[1..n -> S] : n \in lo..hi}

\* segment texts: two words, the second longer than a line; three words
\* with leading, doubled and trailing whitespace; whitespace only
TextAB == <<"a", " ", "b", "b", "b", "b">>
TextCD == <<" ", "c", " ", " ", "d", " ", "e", " ">>
TextBlank == <<" ">>

SegmentSet == {Segment(TextAB, FALSE), Segment(TextCD, TRUE)}

\* a block whose only segment holds no word (an inline element around a blank)
BlankBlock == RichText(<<Segment(TextBlank, FALSE)>>)

FontSet == {updateCanvasFont(segment) : segment \in SegmentSet}

GlyphWidths == {0, 10}

HeadingLevels == {1, 6}

\* <img width height> as parsed by handleImage (parseInt, any sign): scaled
\* to 40px, scaled to 200px, and a negative height
ImageSet == {Image(60, 80), Image(60, 400), Image(20, 0 - 40)}

BlockSet ==
    {Heading(level) : level \in HeadingLevels}
        \cup ImageSet
        \cup {BlankBlock}
        \cup {RichText(segments) : segments \in SeqsOf(SegmentSet, 1, MaxSegments)}

PaginatorSet ==
    [containerWidth : {30}, containerHeight : {30, 80, 120},
     fontSize : {16}, lineHeight : {1}]

----------------------------------------------------------------------------
(* Paginator.calculatePages *)

textMetrics == TextMetricsOf(paginator)

\* references are not followed
NoRefs == [page |-> <<>>, result |-> 0, offered |-> 0]
NoHeap == heap = <<>> /\ refs = NoRefs /\ heapBefore = <<>> /\ calls = 0

\* no BookReader is constructed
NoReader == book = <<>> /\ chapterCache = <<>> /\ tasks = <<>> /\ reply = <<>>

\* nothing is rendered, no markup is parsed
NoRender == rendered = <<>>
NoParse == document = <<>> /\ parsed = <<>>
NoView == NoRender /\ NoParse

\* no second page is kept, no reader view is mounted
NoTwin == twin = <<>>
NoHome == home = <<>>

Init ==
    /\ paginator \in PaginatorSet
    /\ glyphWidth \in [FontSet -> GlyphWidths]
    /\ blocks \in SeqsOf(BlockSet, 0, MaxBlocks)
    /\ index = 1
    /\ pages = <<>>
    /\ currentPage = NewPage(1, TextMetricsOf(paginator))
    /\ pageResult = [type |-> "none"]
    /\ lastCall = <<>>
    /\ created = 1
    /\ pc = "loop"
    /\ run = 1
    /\ firstRun = <<>>
    /\ NoHeap
    /\ NoReader
    /\ NoView
    /\ NoTwin
    /\ NoHome

\* one tryAddBlock call of calculatePages on `page`, and what the loop does
\* with its outcome (an exception leaves calculatePages)
Call(page, block) ==
    LET call == tryAddBlock(textMetrics, page, block) IN
    /\ currentPage' = call.page
    /\ pageResult' = call.result
    /\ lastCall' = <<[page |-> page, block |-> block]>>
    /\ pc' = IF call.result.type = "throw" THEN "error" ELSE "loop"

\* faulty variant of ForNext: a page that a placement leaves without height
\* is pushed at once and a new page is opened, before any block needs it
ForNextEagerTurn ==
    /\ pc = "loop"
    /\ pageResult.type # "page-completed"
    /\ index <= Len(blocks)
    /\ LET call == tryAddBlock(textMetrics, currentPage, blocks[index])
           turn == /\ call.result.type = "page-has-space"
                   /\ call.page.remainingHeight <= 0
                   /\ Len(pages) < MaxPages
       IN  /\ pageResult' = call.result
           /\ lastCall' = <<[page |-> currentPage, block |-> blocks[index]]>>
           /\ pc' = IF call.result.type = "throw" THEN "error" ELSE "loop"
           /\ pages' = IF turn THEN Append(pages, call.page) ELSE pages
           /\ currentPage' = IF turn THEN NewPage(created + 1, textMetrics)
                              ELSE call.page
           /\ created' = IF turn THEN created + 1 ELSE created
    /\ index' = index + 1
    /\ UNCHANGED <<paginator, glyphWidth, blocks, runVars, heapVars, appVars>>

\* for (const block of blocks) { let pageResult = currentPage.tryAddBlock(block); ...
ForNext ==
    /\ pc = "loop"
    /\ pageResult.type # "page-completed"
    /\ index <= Len(blocks)
    /\ Call(currentPage, blocks[index])
    /\ index' = index + 1
    /\ UNCHANGED <<paginator, glyphWidth, blocks, pages, created, runVars, heapVars, appVars>>

\* faulty variant of WhileRetry: currentPage = new Page(textMetrics) is
\* missing, so the retry goes to the page that was just pushed
WhileRetrySamePage ==
    /\ pc = "loop"
    /\ pageResult.type = "page-completed"
    /\ Len(pages) < MaxPages
    /\ pages' = Append(pages, currentPage)
    /\ Call(currentPage, pageResult.remainingBlock)
    /\ UNCHANGED <<paginator, glyphWidth, blocks, index, created, runVars, heapVars, appVars>>

\* while (page-completed && remainingBlock) { pages.push(currentPage);
\*   currentPage = new Page(textMetrics); pageResult = currentPage.tryAddBlock(remainingBlock) }
WhileRetry ==
    /\ pc = "loop"
    /\ pageResult.type = "page-completed"
    /\ Len(pages) < MaxPages
    /\ pages' = Append(pages, currentPage)
    /\ created' = created + 1
    /\ Call(NewPage(created + 1, textMetrics), pageResult.remainingBlock)
    /\ UNCHANGED <<paginator, glyphWidth, blocks, index, runVars, heapVars, appVars>>

\* faulty variant of AppendLastPage: the pages.length === 0 case is missing
AppendLastPageUnlessNone(pgs, page) ==
    IF Len(pgs) > 0 /\ pgs[Len(pgs)].id # page.id
    THEN Append(pgs, page)
    ELSE pgs

\* faulty variant of AppendLastPage: the last page is appended only when no
\* page was sealed
AppendLastPageOnlyFirst(pgs, page) ==
    IF Len(pgs) = 0 THEN Append(pgs, page) ELSE pgs

\* the pages array after "Append the last page if we haven't yet"
AppendLastPage(pgs, page) ==
    IF Len(pgs) = 0 \/ (Len(pgs) > 0 /\ pgs[Len(pgs)].id # page.id)
    THEN Append(pgs, page)
    ELSE pgs

\* the input is exhausted: append the last page and return pages
Return ==
    /\ pc = "loop"
    /\ pageResult.type # "page-completed"
    /\ index > Len(blocks)
    /\ pages' = AppendLastPage(pages, currentPage)
    /\ pc' = "done"
    /\ UNCHANGED <<paginator, glyphWidth, blocks, index, currentPage, pageResult,
                   lastCall, created, runVars, heapVars, appVars>>

Next == ForNext \/ WhileRetry \/ Return

Spec == Init /\ [][Next]_vars

----------------------------------------------------------------------------
(* Vocabulary of the properties *)

\* the outcome of the last tryAddBlock call: page before, page after, argument
Called == lastCall # <<>>
Before == lastCall[1].page
Offered == lastCall[1].block
After == currentPage
Returned == pc # "error"

\* every Page object of the run: the sealed ones and the one in use
AllPages == IF pc = "done" THEN pages ELSE Append(pages, currentPage)

RECURSIVE WordsOfSegments(_)
WordsOfSegments(segments) ==
    IF segments = <<>> THEN <<>>
    ELSE SplitWords(segments[1].text) \o WordsOfSegments(Tail(segments))

RECURSIVE WordsOfBlocks(_)
WordsOfBlocks(bs) ==
    IF bs = <<>> THEN <<>>
    ELSE (IF bs[1].type = "richtext" THEN WordsOfSegments(bs[1].segments) ELSE <<>>)
             \o WordsOfBlocks(Tail(bs))

RECURSIVE WordsOfPages(_)
WordsOfPages(pgs) ==
    IF pgs = <<>> THEN <<>>
    ELSE WordsOfBlocks(pgs[1].blocks) \o WordsOfPages(Tail(pgs))

IsFresh(page) ==
    page.blocks = <<>> /\ page.remainingHeight = textMetrics.containerHeight

\* the last call appended a block to the page
Placed == Called /\ Len(After.blocks) = Len(Before.blocks) + 1
PlacedBlock == After.blocks[Len(After.blocks)]

\* the last call split a RichText block: a completed part went on the page
\* and the rest came back
SplitHappened ==
    /\ Placed
    /\ Offered.type = "richtext"
    /\ pageResult.type = "page-completed"

\* A fresh page handed back, untouched, the whole block it was offered.  Every
\* fresh page is equal to this one and tryAddBlock is a function of the page
\* and the block, so the retry loop of calculatePages repeats this step for
\* ever: it never reaches page-has-space and never throws.
Stalled ==
    /\ pc = "loop"
    /\ Called
    /\ IsFresh(Before)
    /\ After = Before
    /\ pageResult = PageCompleted(Offered)

IsOversizedImage(block) ==
    /\ block.type = "image"
    /\ calculateImageHeight(textMetrics, block.metadata.dimensions)
           > textMetrics.containerHeight

----------------------------------------------------------------------------
(* Properties *)

\* C1: when calculatePages returns, the whitespace-delimited words of the
\* RichText segments on the returned pages, read in page, block and segment
\* order, are exactly the words of the input in input order: none dropped,
\* none duplicated, none on two pages.
C1_WordsPreserved ==
    pc = "done" => WordsOfPages(pages) = WordsOfBlocks(blocks)

\* a returned run in which one RichText block was split inside a segment and
\* its words lie on two pages
C1_Witness ==
    /\ pc = "done"
    /\ \E k \in 1..(Len(pages) - 1) :
          LET last == pages[k].blocks[Len(pages[k].blocks)]
              first == pages[k + 1].blocks[1]
          IN  /\ pages[k].blocks # <<>>
              /\ pages[k + 1].blocks # <<>>
              /\ last.type = "richtext"
              /\ first.type = "richtext"
              /\ Len(SplitWords(last.segments[Len(last.segments)].text)) >= 2
              /\ first.segments[1].text = <<"e">>

\* C2: on every page a Heading occurs only at index 0 of the block list; a
\* Heading offered to a page that already holds a block comes back whole as
\* the remainder of page-completed and the page is left as it was.
C2_HeadingOnlyFirst ==
    /\ \A k \in 1..Len(AllPages) :
          \A j \in 2..Len(AllPages[k].blocks) : AllPages[k].blocks[j].type # "heading"
    /\ (Called /\ Returned /\ Offered.type = "heading" /\ Before.blocks # <<>>)
          => (pageResult = PageCompleted(Offered) /\ After = Before)

\* a Heading that would have fitted the room left on a page with a block was
\* refused there and now leads the next page
C2_Witness ==
    /\ pc = "loop"
    /\ pages # <<>>
    /\ LET sealed == pages[Len(pages)] IN
          /\ sealed.id # currentPage.id
          /\ sealed.blocks # <<>>
          /\ currentPage.blocks # <<>>
          /\ currentPage.blocks[1].type = "heading"
          /\ sealed.remainingHeight >=
                 calculateHeadingHeight(textMetrics, currentPage.blocks[1].metadata.level)

\* C3: calculatePages of the empty sequence returns exactly one page, and
\* that page holds no block.
C3_EmptyInputOnePage ==
    (pc = "done" /\ blocks = <<>>) => (Len(pages) = 1 /\ pages[1].blocks = <<>>)

C3_Witness == pc = "done" /\ blocks = <<>>

\* C4: if the input contains an Image whose scaled height exceeds
\* containerHeight, calculatePages ends by raising an error: it returns no
\* page list and it does not loop for ever.
C4_OversizedImageAborts ==
    (\E k \in 1..Len(blocks) : IsOversizedImage(blocks[k]))
        => (pc # "done" /\ ~Stalled)

\* C5: calculatePages terminates: after page-completed the retry loop reaches
\* page-has-space after finitely many fresh pages, so no fresh page hands the
\* whole block back.
C5_RetryLoopTerminates == ~Stalled

\* C6: within one Page remainingHeight starts at containerHeight and never
\* increases: after every tryAddBlock call it is at most what it was before.
C6_RemainingHeightNonIncreasing ==
    /\ \A k \in 1..Len(AllPages) :
          AllPages[k].remainingHeight <= textMetrics.containerHeight
    /\ (Called /\ Returned) => After.remainingHeight <= Before.remainingHeight

\* C7: when a RichText block is split, the segments of the completed block
\* followed by those of the remainder are the original segments in order,
\* except that at most one segment is divided into two pieces that keep its
\* style and share out its words; every other segment is whole on one side.
C7_SplitIntegrity ==
    SplitHappened =>
        LET original == Offered.segments
            completed == PlacedBlock.segments
            remaining == pageResult.remainingBlock.segments
        IN  \/ completed \o remaining = original
            \/ \E k \in 1..Len(original) :
                  /\ Len(completed) = k
                  /\ Len(remaining) = Len(original) - k + 1
                  /\ SubSeq(completed, 1, k - 1) = SubSeq(original, 1, k - 1)
                  /\ SubSeq(remaining, 2, Len(remaining))
                         = SubSeq(original, k + 1, Len(original))
                  /\ completed[k].style = original[k].style
                  /\ remaining[1].style = original[k].style
                  /\ SplitWords(completed[k].text) # <<>>
                  /\ SplitWords(remaining[1].text) # <<>>
                  /\ SplitWords(completed[k].text) \o SplitWords(remaining[1].text)
                         = SplitWords(original[k].text)

\* a split inside the second segment of a block: the first segment stays
\* whole on the page, the second is divided
C7_Witness ==
    /\ SplitHappened
    /\ Len(Offered.segments) = 2
    /\ Len(PlacedBlock.segments) = 2
    /\ Len(pageResult.remainingBlock.segments) = 1
    /\ PlacedBlock.segments \o pageResult.remainingBlock.segments # Offered.segments

\* the height a RichText block takes when laid out whole: the lines its
\* words wrap into on a page tall enough never to break
RichTextHeight(block) ==
    LET tall == lineHeight * (Len(WordsOfSegments(block.segments)) + 2)
        layout == LayoutWords(textMetrics, block, 0, 0, 0, tall)
    IN  tall - (IF layout.currentLineWidth > 0
                THEN layout.remainingHeight - lineHeight
                ELSE layout.remainingHeight)

BlockHeight(block) ==
    CASE block.type = "heading" ->
             calculateHeadingHeight(textMetrics, block.metadata.level)
      [] block.type = "image" ->
             calculateImageHeight(textMetrics, block.metadata.dimensions)
      [] block.type = "richtext" -> RichTextHeight(block)

\* C8: tryAddBlock takes paragraphSpacing off remainingHeight exactly once
\* when it returns page-has-space and not at all when it returns
\* page-completed, also when the completed part of a split block was placed:
\* the page loses the height of what was placed, plus the spacing only on
\* page-has-space.
C8_SpacingOnlyOnHasSpace ==
    (Called /\ Returned) =>
        LET consumed == IF Placed THEN BlockHeight(PlacedBlock) ELSE 0 IN
        /\ pageResult.type = "page-has-space" =>
              /\ Placed
              /\ After.remainingHeight =
                     Before.remainingHeight - consumed - textMetrics.paragraphSpacing
        /\ pageResult.type = "page-completed" =>
              After.remainingHeight = Before.remainingHeight - consumed

\* a split placed a completed part of positive height and no spacing followed
C8_Witness ==
    /\ SplitHappened
    /\ textMetrics.paragraphSpacing > 0
    /\ BlockHeight(PlacedBlock) > 0

\* C9: a call on a page whose remainingHeight is <= 0 returns page-completed
\* with the whole input block as remainder, whatever the block, and leaves
\* the page's block list and remainingHeight as they were.
C9_FullPageRefuses ==
    (Called /\ Before.remainingHeight <= 0)
        => (pageResult = PageCompleted(Offered) /\ After = Before)

\* a block that needs no height at all was offered to a full page
C9_Witness ==
    /\ Called
    /\ Before.remainingHeight <= 0
    /\ Offered.type = "richtext"
    /\ WordsOfSegments(Offered.segments) = <<>>

\* C10: the returned list holds every Page created during the run exactly
\* once, in creation order; while the loop runs the sealed pages are the
\* pages created before the one in use.
C10_EveryPageOnce ==
    /\ pc = "done" =>
          (Len(pages) = created /\ \A k \in 1..Len(pages) : pages[k].id = k)
    /\ pc = "loop" =>
          /\ Len(pages) = created - 1
          /\ \A k \in 1..Len(pages) : pages[k].id = k
          /\ currentPage.id = created

\* a run that returned three or more pages
C10_Witness == pc = "done" /\ Len(pages) >= 3

----------------------------------------------------------------------------
(* calculatePages called a second time on the same Paginator with the same  *)
(* blocks, as a caller that caches pages by chapter does after dropping its *)
(* cache.  The Paginator's four fields are readonly, the rendering surface  *)
(* is the same, and every local of calculatePages is initialised anew.      *)

\* the block lists of a page list, in page order
BlocksOfPages(pgs) == [k \in 1..Len(pgs) |-> pgs[k].blocks]

\* faulty variant of CallAgain: currentPage is kept from the first call, as
\* if it were a field of the Paginator and not a local of calculatePages
CallAgainKeepingPage ==
    /\ pc = "done"
    /\ run = 1
    /\ run' = 2
    /\ firstRun' = BlocksOfPages(pages)
    /\ index' = 1
    /\ pages' = <<>>
    /\ pageResult' = [type |-> "none"]
    /\ lastCall' = <<>>
    /\ pc' = "loop"
    /\ UNCHANGED <<paginator, glyphWidth, blocks, currentPage, created, heapVars,
                   appVars>>

\* the first call has returned; calculatePages(blocks) is entered again:
\* const pages = []; const textMetrics = {...}; let currentPage = new Page(textMetrics)
CallAgain ==
    /\ pc = "done"
    /\ run = 1
    /\ run' = 2
    /\ firstRun' = BlocksOfPages(pages)
    /\ index' = 1
    /\ pages' = <<>>
    /\ created' = created + 1
    /\ currentPage' = NewPage(created + 1, textMetrics)
    /\ pageResult' = [type |-> "none"]
    /\ lastCall' = <<>>
    /\ pc' = "loop"
    /\ UNCHANGED <<paginator, glyphWidth, blocks, heapVars, appVars>>

TwiceNext == ForNext \/ WhileRetry \/ Return \/ CallAgain

TwiceSpec == Init /\ [][TwiceNext]_vars

----------------------------------------------------------------------------
(* Page called directly.  tryAddBlock is public: a caller that holds a block *)
(* object offers it to a page, may offer what a result handed back, and may  *)
(* construct a new Page.  Block objects are followed by reference.           *)

\* faulty variant of HeapAfterCall: the input block is cut in place
\* (block.segments.length = ...) and serves as the completed block
HeapAfterCallInPlace(hp, ref, call, split) ==
    IF split
    THEN [hp EXCEPT ![ref] = call.page.blocks[Len(call.page.blocks)]]
             \o <<call.page.blocks[Len(call.page.blocks)], call.result.remainingBlock>>
    ELSE hp

\* The objects after a tryAddBlock call on the object `ref`.  splitBlock
\* builds completedBlock and remainingBlock as new object literals
\* ({...block, segments: ...}) over arrays made by slice and spread; no
\* statement of Page assigns to the input block, its segments array or a
\* segment, so the objects that existed stay as they were.
HeapAfterCall(hp, ref, call, split) ==
    IF split
    THEN hp \o <<call.page.blocks[Len(call.page.blocks)], call.result.remainingBlock>>
    ELSE hp

\* The references after the call: this.blocks.push(block) and
\* remainingBlock: block pass the input reference on; a split hands out the
\* two new objects.
RefsAfterCall(hp, held, ref, call, placed, split) ==
    [page |-> IF split THEN Append(held.page, Len(hp) + 1)
              ELSE IF placed THEN Append(held.page, ref)
              ELSE held.page,
     result |-> IF split THEN Len(hp) + 2
                ELSE IF call.result.type = "page-completed" THEN ref
                ELSE 0,
     offered |-> ref]

\* the caller's second object: a heading of 20px, an image scaled to 40px
SecondBlockSet == {Heading(6), Image(60, 80)}

PageInit ==
    /\ paginator \in PaginatorSet
    /\ glyphWidth \in [FontSet -> GlyphWidths]
    /\ \E block \in BlockSet, other \in SecondBlockSet : heap = <<block, other>>
    /\ refs = NoRefs
    /\ heapBefore = <<>>
    /\ calls = 0
    /\ blocks = <<>>
    /\ index = 1
    /\ pages = <<>>
    /\ currentPage = NewPage(1, TextMetricsOf(paginator))
    /\ pageResult = [type |-> "none"]
    /\ lastCall = <<>>
    /\ created = 1
    /\ pc = "loop"
    /\ run = 1
    /\ firstRun = <<>>
    /\ NoReader
    /\ NoView
    /\ NoTwin
    /\ NoHome

\* page.tryAddBlock(block) on an object the caller holds
Offer ==
    /\ pc = "loop"
    /\ calls < MaxCalls
    /\ \E ref \in 1..Len(heap) :
          LET call == tryAddBlock(textMetrics, currentPage, heap[ref])
              placed == Len(call.page.blocks) = Len(currentPage.blocks) + 1
              split == placed /\ call.result.type = "page-completed"
          IN  /\ Call(currentPage, heap[ref])
              /\ heap' = HeapAfterCall(heap, ref, call, split)
              /\ refs' = RefsAfterCall(heap, refs, ref, call, placed, split)
    /\ heapBefore' = heap
    /\ calls' = calls + 1
    /\ UNCHANGED <<paginator, glyphWidth, blocks, index, pages, created, runVars,
                   appVars>>

\* new Page(textMetrics) after a call on the page in use; the caller keeps
\* the objects and the last result
TurnPage ==
    /\ pc = "loop"
    /\ Called
    /\ created' = created + 1
    /\ currentPage' = NewPage(created + 1, textMetrics)
    /\ lastCall' = <<>>
    /\ refs' = [refs EXCEPT !.page = <<>>]
    /\ UNCHANGED <<paginator, glyphWidth, blocks, index, pages, pageResult, pc,
                   runVars, heap, heapBefore, calls, appVars>>

PageNext == Offer \/ TurnPage

PageSpec == PageInit /\ [][PageNext]_vars

\* the object passed to the last call, and a reference is new when the
\* object did not exist before the call
OfferedRef == refs.offered
IsNewRef(ref) == ref > Len(heapBefore) /\ ref <= Len(heap)

----------------------------------------------------------------------------
(* Sealed pages *)

SealedIds == {pages[k].id : k \in 1..Len(pages)}

IsPrefix(s, t) == Len(s) <= Len(t) /\ SubSeq(t, 1, Len(s)) = s

\* C13: once calculatePages has pushed a page and started a new one, it
\* makes no tryAddBlock call on the pushed page, and the pushed page keeps
\* its block list and remainingHeight for the rest of the run; on the page in
\* use blocks are only appended at the end, never removed or reordered.
C13_SealedPagesFrozen ==
    [][/\ IsPrefix(pages, pages')
       /\ (pc' = "loop" /\ lastCall' # <<>>) =>
              /\ lastCall'[1].page.id \notin {pages'[k].id : k \in 1..Len(pages')}
              /\ lastCall'[1].page.id = currentPage'.id
       /\ currentPage'.id = currentPage.id =>
              IsPrefix(currentPage.blocks, currentPage'.blocks)
       /\ currentPage'.id # currentPage.id =>
              (currentPage.id \in {pages'[k].id : k \in 1..Len(pages')}
                   /\ lastCall'[1].page.blocks = <<>>)
      ]_vars

\* two pages are sealed, the first of them holding two blocks, and a block
\* has just been placed on the third page
C13_Witness ==
    /\ pc = "loop"
    /\ Len(pages) = 2
    /\ Len(pages[1].blocks) = 2
    /\ Placed
    /\ currentPage.id \notin SealedIds

----------------------------------------------------------------------------
(* Deferral of headings and images *)

\* C14: a Heading offered to a page that holds a block, or whose height
\* exceeds remainingHeight, and an Image whose scaled height exceeds
\* remainingHeight but not containerHeight, come back whole as the remainder
\* of page-completed, and the page keeps its block list and remainingHeight;
\* a fresh page accepts a heading whose height is at most containerHeight.
C14_DeferredWhole ==
    (Called /\ Returned) =>
        /\ (/\ Offered.type = "heading"
            /\ \/ Before.blocks # <<>>
               \/ BlockHeight(Offered) > Before.remainingHeight)
              => (pageResult = PageCompleted(Offered) /\ After = Before)
        /\ (/\ Offered.type = "image"
            /\ BlockHeight(Offered) > Before.remainingHeight
            /\ BlockHeight(Offered) <= textMetrics.containerHeight)
              => (pageResult = PageCompleted(Offered) /\ After = Before)
        /\ (/\ Offered.type = "heading"
            /\ IsFresh(Before)
            /\ BlockHeight(Offered) <= textMetrics.containerHeight)
              => (/\ pageResult.type = "page-has-space"
                  /\ After.blocks = <<Offered>>
                  /\ After.remainingHeight =
                         textMetrics.containerHeight - BlockHeight(Offered)
                             - textMetrics.paragraphSpacing)

\* a heading was offered to a page that holds a RichText block and has room
\* enough left for the heading: the same object came back whole and the page
\* is as it was
C14_Witness ==
    /\ Called
    /\ Offered.type = "heading"
    /\ Before.blocks # <<>>
    /\ Before.blocks[1].type = "richtext"
    /\ BlockHeight(Offered) <= Before.remainingHeight
    /\ pageResult = PageCompleted(Offered)
    /\ refs.result = refs.offered
    /\ After = Before

----------------------------------------------------------------------------
(* Anchors: blocks and segments that carry the id of their source element, *)
(* and the lookup of an id on a page                                       *)

\* metadata: {...metadata, id}
Anchored(block, id) == [block EXCEPT !.metadata = [id |-> id] @@ @]

\* a segment made for an inline element that carries an id
AnchoredSegment(text, bold, id) ==
    [text |-> text,
     style |-> [bold |-> bold, italic |-> FALSE, underline |-> FALSE],
     metadata |-> [id |-> id]]

\* x.metadata?.id === id
HasId(x, id) ==
    /\ "metadata" \in DOMAIN x
    /\ "id" \in DOMAIN x.metadata
    /\ x.metadata.id = id

RECURSIVE SomeSegmentHasId(_, _)
SomeSegmentHasId(segments, id) ==
    IF segments = <<>> THEN FALSE
    ELSE HasId(segments[1], id) \/ SomeSegmentHasId(Tail(segments), id)

RECURSIVE SomeBlockHasId(_, _)
SomeBlockHasId(bs, id) ==
    IF bs = <<>> THEN FALSE
    ELSE \/ HasId(bs[1], id)
         \/ (bs[1].type = "richtext" /\ SomeSegmentHasId(bs[1].segments, id))
         \/ SomeBlockHasId(Tail(bs), id)

\* faulty variant of checkIfPageContainsId: only the blocks' own ids count
checkIfPageContainsBlockId(page, id) ==
    \E k \in 1..Len(page.blocks) : HasId(page.blocks[k], id)

\* Page.checkIfPageContainsId(id): a scan of this.blocks that reads only
checkIfPageContainsId(page, id) == SomeBlockHasId(page.blocks, id)

\* String.prototype.split(sep): the pieces between the separators, empty
\* pieces kept
RECURSIVE SplitOnFrom(_, _, _, _, _)
SplitOnFrom(text, sep, k, cur, acc) ==
    IF k > Len(text) THEN Append(acc, cur)
    ELSE IF text[k] = sep
         THEN SplitOnFrom(text, sep, k + 1, <<>>, Append(acc, cur))
         ELSE SplitOnFrom(text, sep, k + 1, Append(cur, text[k]), acc)

SplitOn(text, sep) == SplitOnFrom(text, sep, 1, <<>>, <<>>)

\* faulty variant of findIndex: the last page that contains the id
RECURSIVE findLastIndex(_, _)
findLastIndex(pgs, id) ==
    IF pgs = <<>> THEN 0 - 1
    ELSE IF checkIfPageContainsId(pgs[Len(pgs)], id) THEN Len(pgs) - 1
    ELSE findLastIndex(SubSeq(pgs, 1, Len(pgs) - 1), id)

\* chapterPages.findIndex(page => page.checkIfPageContainsId(id)): 0-based, -1 if none
RECURSIVE findIndex(_, _)
findIndex(pgs, id) ==
    IF pgs = <<>> THEN 0 - 1
    ELSE IF checkIfPageContainsId(pgs[1], id) THEN 0
    ELSE LET rest == findIndex(Tail(pgs), id)
         IN  IF rest = 0 - 1 THEN 0 - 1 ELSE rest + 1

----------------------------------------------------------------------------
(* BookReader: pages of a chapter on demand, cached by chapter id, and the  *)
(* resolution of an anchor "file#id" to a page of its chapter               *)

IdX == <<"x">>
IdY == <<"y">>
IdZ == <<"z">>

\* a heading with an id, then a paragraph whose second inline run has an id
ChapterA ==
    <<Anchored(Heading(1), IdX),
      RichText(<<Segment(TextAB, FALSE), AnchoredSegment(TextCD, TRUE, IdY)>>)>>

\* a paragraph with an id, long enough to be split over pages, that holds an
\* inline run with another id; then an image that repeats the run's id
ChapterB ==
    <<Anchored(RichText(<<Segment(TextAB, FALSE), AnchoredSegment(TextCD, TRUE, IdY)>>),
               IdX),
      Anchored(Image(60, 80), IdY)>>

\* a paragraph, then an image no page can hold
ChapterC == <<RichText(<<Segment(TextAB, FALSE)>>), Image(60, 400)>>

Parsed(blks) == [type |-> "blocks", blocks |-> blks]

\* what getChapterContent followed by blockParser.parse gives for a chapter:
\* its blocks, or the error either of them throws
ChapterContentSet ==
    {Parsed(ChapterA), Parsed(ChapterB), Parsed(ChapterC),
     Throw("SHOULD NEVER HAPPEN: Image source not found")}

\* Object.values(this.getManifest()), in order
Manifest ==
    <<[id |-> "c1", path |-> <<"f">>], [id |-> "c2", path |-> <<"g">>]>>

Chapters == {Manifest[k].id : k \in 1..Len(Manifest)}

Callers == {1, 2}

EpubIdSet ==
    {<<"f">>, <<"f", "#">>, <<"f", "#", "x">>, <<"f", "#", "y">>,
     <<"g", "#", "y">>, <<"g", "#", "z">>, <<"h", "#", "x">>}

\* new BookReader(parser, {width: 30, height: 80, fontSize: 16, lineHeight: 1})
ReaderPaginatorSet ==
    [containerWidth : {30}, containerHeight : {80}, fontSize : {16}, lineHeight : {1}]

Idle == [op |-> "idle"]

ReaderInit ==
    /\ paginator \in ReaderPaginatorSet
    /\ glyphWidth \in [FontSet -> {10}]
    /\ book \in [Chapters -> ChapterContentSet]
    /\ chapterCache = <<>>
    /\ tasks = [caller \in Callers |-> Idle]
    /\ reply = <<>>
    /\ blocks = <<>>
    /\ index = 1
    /\ pages = <<>>
    /\ currentPage = NewPage(1, TextMetricsOf(paginator))
    /\ pageResult = [type |-> "none"]
    /\ lastCall = <<>>
    /\ created = 1
    /\ pc = "idle"
    /\ run = 1
    /\ firstRun = <<>>
    /\ NoHeap
    /\ NoView
    /\ NoTwin
    /\ NoHome

\* manifestValues.find(item => item.path === fileName): position of the first
\* item with that path, 0 if there is none
RECURSIVE FindPath(_, _, _)
FindPath(items, k, fileName) ==
    IF k > Len(items) THEN 0
    ELSE IF items[k].path = fileName THEN k
    ELSE FindPath(items, k + 1, fileName)

\* navigateToId from chapterPages on; an absent id and "" are both falsy
Navigated(chapterPages, id) ==
    IF id = <<>>
    THEN [type |-> "navigated", pages |-> chapterPages, pageIndex |-> 0]
    ELSE LET pageIndex == findIndex(chapterPages, id)
         IN  IF pageIndex = 0 - 1
             THEN [type |-> "navigated", pages |-> chapterPages, pageIndex |-> 0]
             ELSE [type |-> "navigated", pages |-> chapterPages,
                   pageIndex |-> pageIndex]

\* what a finished call gave its caller: the value its promise resolved to,
\* or the error it was rejected with
Reply(caller, task, result) ==
    <<[caller |-> caller, op |-> task.op, chapter |-> task.chapter,
       id |-> task.id, result |-> result]>>


\* faulty variant of CacheAfter: the entry is set before the pages are known,
\* so a failed attempt leaves an empty page list behind
CacheAfterSetFirst(cache, chapterId, outcome) ==
    IF outcome = "done"
    THEN (chapterId :> pages) @@ cache
    ELSE (chapterId :> <<>>) @@ cache

\* this.chapterCache.set(chapterId, pages) is reached only when
\* calculatePages has returned
CacheAfter(cache, chapterId, outcome) ==
    IF outcome = "done"
    THEN (chapterId :> pages) @@ cache
    ELSE cache

\* no calculatePages call is on the stack: JavaScript runs one call at a
\* time, so no other BookReader code runs while one is
NotPaginating == pc = "idle"

\* getChapterPages(chapterId) up to its await: a cached chapter is answered
\* at once, any other waits for parser.getChapterContent
GetChapterPages ==
    \E caller \in Callers, chapterId \in Chapters :
        LET task == [op |-> "getChapterPages", chapter |-> chapterId, id |-> <<>>,
                     stage |-> "awaiting"]
        IN
        /\ NotPaginating
        /\ tasks[caller] = Idle
        /\ IF chapterId \in DOMAIN chapterCache
           THEN /\ reply' = Reply(caller, task,
                                  [type |-> "pages", pages |-> chapterCache[chapterId]])
                /\ UNCHANGED tasks
           ELSE /\ tasks' = [tasks EXCEPT ![caller] = task]
                /\ UNCHANGED reply
        /\ UNCHANGED <<paginator, glyphWidth, blocks, index, pages, currentPage,
                       pageResult, lastCall, created, pc, runVars, heapVars,
                       book, chapterCache, viewVars, twin, home>>

\* navigateToId(epubId) up to the await inside getChapterPages
NavigateToId ==
    \E caller \in Callers, epubId \in EpubIdSet :
        LET parts == SplitOn(epubId, "#")
            fileName == parts[1]
            id == IF Len(parts) >= 2 THEN parts[2] ELSE <<>>
            found == FindPath(Manifest, 1, fileName)
            chapterId == IF found = 0 THEN "" ELSE Manifest[found].id
            task == [op |-> "navigateToId", chapter |-> chapterId, id |-> id,
                     stage |-> "awaiting"]
        IN
        /\ NotPaginating
        /\ tasks[caller] = Idle
        /\ IF found = 0
           THEN /\ reply' = Reply(caller, task,
                                  [type |-> "navigated", pages |-> <<>>,
                                   pageIndex |-> 0 - 1])
                /\ UNCHANGED tasks
           ELSE IF chapterId \in DOMAIN chapterCache
           THEN /\ reply' = Reply(caller, task, Navigated(chapterCache[chapterId], id))
                /\ UNCHANGED tasks
           ELSE /\ tasks' = [tasks EXCEPT ![caller] = task]
                /\ UNCHANGED reply
        /\ UNCHANGED <<paginator, glyphWidth, blocks, index, pages, currentPage,
                       pageResult, lastCall, created, pc, runVars, heapVars,
                       book, chapterCache, viewVars, twin, home>>

\* The content of the awaited chapter arrives and getChapterPages goes on:
\* getChapterContent or blockParser.parse throws, which rejects the call, or
\* paginator.calculatePages(blocks) is entered.
Resume ==
    \E caller \in Callers :
        LET task == tasks[caller]
            content == book[task.chapter]
        IN
        /\ NotPaginating
        /\ task # Idle
        /\ IF content.type = "throw"
           THEN /\ tasks' = [tasks EXCEPT ![caller] = Idle]
                /\ reply' = Reply(caller, task, content)
                /\ UNCHANGED <<blocks, pc>>
           ELSE /\ tasks' = [tasks EXCEPT ![caller].stage = "paginating"]
                /\ blocks' = content.blocks
                /\ pc' = "loop"
                /\ UNCHANGED reply
        /\ UNCHANGED <<paginator, glyphWidth, index, pages, currentPage, pageResult,
                       lastCall, created, runVars, heapVars, book, chapterCache,
                       viewVars, twin, home>>

\* calculatePages has returned or thrown: the pages are cached and handed to
\* the caller (getChapterPages) or searched for the id (navigateToId); an
\* error leaves getChapterPages before chapterCache.set.  The locals of
\* calculatePages are gone.
Complete ==
    \E caller \in Callers :
        LET task == tasks[caller] IN
        /\ pc \in {"done", "error"}
        /\ task # Idle
        /\ task.stage = "paginating"
        /\ tasks' = [tasks EXCEPT ![caller] = Idle]
        /\ chapterCache' = CacheAfter(chapterCache, task.chapter, pc)
        /\ reply' = Reply(caller, task,
                          IF pc = "error" THEN pageResult
                          ELSE IF task.op = "navigateToId"
                          THEN Navigated(pages, task.id)
                          ELSE [type |-> "pages", pages |-> pages])
        /\ blocks' = <<>>
        /\ index' = 1
        /\ pages' = <<>>
        /\ currentPage' = NewPage(1, textMetrics)
        /\ pageResult' = [type |-> "none"]
        /\ lastCall' = <<>>
        /\ created' = 1
        /\ pc' = "idle"
        /\ UNCHANGED <<paginator, glyphWidth, runVars, heapVars, book, viewVars, twin, home>>

\* clearCache()
ClearCache ==
    /\ NotPaginating
    /\ chapterCache # <<>>
    /\ chapterCache' = <<>>
    /\ UNCHANGED <<paginator, glyphWidth, blocks, index, pages, currentPage,
                   pageResult, lastCall, created, pc, runVars, heapVars,
                   book, tasks, reply, viewVars, twin, home>>

ReaderNext ==
    \/ GetChapterPages
    \/ NavigateToId
    \/ Resume
    \/ ForNext
    \/ WhileRetry
    \/ Return
    \/ Complete
    \/ ClearCache

ReaderSpec == ReaderInit /\ [][ReaderNext]_vars

----------------------------------------------------------------------------
(* Properties of anchor lookup and of the chapter cache *)

Replied == reply # <<>>
LastReply == reply[1]

\* the 0-based indices of the pages of a list that hold the id on a block or
\* on a segment of a RichText block
PagesWithId(pgs, id) ==
    {k - 1 : k \in {n \in 1..Len(pgs) :
        \E j \in 1..Len(pgs[n].blocks) :
            LET block == pgs[n].blocks[j] IN
            \/ HasId(block, id)
            \/ /\ block.type = "richtext"
               /\ \E i \in 1..Len(block.segments) : HasId(block.segments[i], id)}}

\* C15: checkIfPageContainsId(id) is true exactly when a block placed on the
\* page has metadata id equal to id or a segment of a RichText block placed
\* on it has, also when that block carries another id; it is false on a page
\* with no blocks; the pages it was called on are the cached pages, as they
\* were.
C15_ContainsIdIffCarried ==
    /\ \A id \in {IdX, IdY, IdZ} :
          /\ ~checkIfPageContainsId(NewPage(1, textMetrics), id)
          /\ \A chapterId \in DOMAIN chapterCache :
                \A k \in 1..Len(chapterCache[chapterId]) :
                    checkIfPageContainsId(chapterCache[chapterId][k], id)
                        <=> (k - 1) \in PagesWithId(chapterCache[chapterId], id)
    /\ (/\ Replied
        /\ LastReply.op = "navigateToId"
        /\ LastReply.chapter \in DOMAIN chapterCache)
          => LastReply.result.pages = chapterCache[LastReply.chapter]

\* a cached page holds a block with id x that has a segment with id y, and a
\* lookup of y has just answered with that page
C15_Witness ==
    /\ Replied
    /\ LastReply.op = "navigateToId"
    /\ LastReply.id = IdY
    /\ LastReply.chapter \in DOMAIN chapterCache
    /\ LET page == chapterCache[LastReply.chapter][LastReply.result.pageIndex + 1] IN
          \E j \in 1..Len(page.blocks) :
              /\ HasId(page.blocks[j], IdX)
              /\ page.blocks[j].type = "richtext"
              /\ SomeSegmentHasId(page.blocks[j].segments, IdY)

\* C16: navigateToId("file#id") answers with the smallest index of a page of
\* the chapter that contains the id, whenever some page of the chapter does:
\* the scan is in page order and the first match wins.
C16_FirstMatchWins ==
    (/\ Replied
     /\ LastReply.op = "navigateToId"
     /\ LastReply.result.type = "navigated"
     /\ LastReply.id # <<>>
     /\ PagesWithId(LastReply.result.pages, LastReply.id) # {})
        => /\ LastReply.result.pageIndex \in PagesWithId(LastReply.result.pages, LastReply.id)
           /\ \A k \in PagesWithId(LastReply.result.pages, LastReply.id) :
                 LastReply.result.pageIndex <= k

\* the id is on two pages of the chapter, neither of them the first, and
\* the answer is the earlier of the two
C16_Witness ==
    /\ Replied
    /\ LastReply.op = "navigateToId"
    /\ LastReply.result.type = "navigated"
    /\ LastReply.id # <<>>
    /\ Cardinality(PagesWithId(LastReply.result.pages, LastReply.id)) >= 2
    /\ LastReply.result.pageIndex >= 1
    /\ \E k \in PagesWithId(LastReply.result.pages, LastReply.id) :
          k > LastReply.result.pageIndex

\* C17: a getChapterPages call that fails, because parsing or calculatePages
\* threw, stores no entry for its chapter and leaves every cached page list
\* as it was; a later getChapterPages of a cached chapter answers with the
\* cached pages.
C17_FailureLeavesCache ==
    [][/\ \A caller \in Callers :
             (/\ tasks[caller] # Idle
              /\ tasks'[caller] = Idle
              /\ reply'[1].result.type = "throw")
                => /\ chapterCache' = chapterCache
                   /\ reply'[1].chapter \notin DOMAIN chapterCache'
       /\ (/\ reply' # reply
           /\ reply'[1].op = "getChapterPages"
           /\ reply'[1].chapter \in DOMAIN chapterCache)
             => reply'[1].result = [type |-> "pages",
                                    pages |-> chapterCache[reply'[1].chapter]]
      ]_vars

\* calculatePages threw on a chapter's oversized image while another chapter
\* was cached; the last call to finish is the failed one
C17_Witness ==
    /\ Replied
    /\ LastReply.result.type = "throw"
    /\ LastReply.result.message = "SHOULD NOT OCCUR Image is too large to fit on a page"
    /\ chapterCache # <<>>
    /\ LastReply.chapter \notin DOMAIN chapterCache

----------------------------------------------------------------------------
(* Three paragraphs on pages of about 100px, with paragraph spacing 10 *)

\* paragraphs of one line ("a", "c d") and of two lines ("a" / "bbbb") on a
\* line of 30px with glyphs of 10px
ExampleBlockSet ==
    {RichText(<<Segment(<<"a">>, FALSE)>>),
     RichText(<<Segment(<<"c", " ", "d">>, TRUE)>>),
     RichText(<<Segment(TextAB, FALSE)>>)}

\* font size 7 gives paragraphSpacing = ceil(28 / 3) = 10
ExamplePaginatorSet ==
    [containerWidth : {30}, containerHeight : {90, 100, 110},
     fontSize : {7}, lineHeight : {1}]

ExampleInit ==
    /\ paginator \in ExamplePaginatorSet
    /\ glyphWidth \in [FontSet -> {10}]
    /\ blocks \in [1..3 -> ExampleBlockSet]
    /\ index = 1
    /\ pages = <<>>
    /\ currentPage = NewPage(1, TextMetricsOf(paginator))
    /\ pageResult = [type |-> "none"]
    /\ lastCall = <<>>
    /\ created = 1
    /\ pc = "loop"
    /\ run = 1
    /\ firstRun = <<>>
    /\ NoHeap
    /\ NoReader
    /\ NoView
    /\ NoTwin
    /\ NoHome

ExampleSpec == ExampleInit /\ [][Next]_vars

\* the input of the example: container height 100, paragraph spacing 10,
\* three RichText blocks that each need 40px
IsExample ==
    /\ textMetrics.containerHeight = 100
    /\ textMetrics.paragraphSpacing = 10
    /\ Len(blocks) = 3
    /\ \A k \in 1..3 : blocks[k].type = "richtext" /\ RichTextHeight(blocks[k]) = 40

\* C18: with container height 100, paragraph spacing 10 and three RichText
\* blocks of 40px each, blocks 1 and 2 are placed on page 1 and block 3 goes
\* whole to page 2: exactly two pages are returned.
C18_ThreeBlocksTwoPages ==
    (IsExample /\ pc = "done") =>
        /\ Len(pages) = 2
        /\ pages[1].blocks = <<blocks[1], blocks[2]>>
        /\ pages[2].blocks = <<blocks[3]>>

\* the example has been paginated; block 3 was offered to page 1 when it had
\* 0px left (100 - 40 - 10 - 40 - 10)
C18_Witness ==
    /\ IsExample
    /\ pc = "done"
    /\ pages[1].remainingHeight = 0
    /\ blocks[1] # blocks[2]

----------------------------------------------------------------------------
(* Page.render: the HTML of a page's blocks (BlocksToHTMLConverter).  HTML  *)
(* is a sequence of characters, as the texts are.                           *)

\* the literal parts of the templates of convertImage and convertRichText
ImgOpen ==
    <<"<", "i", "m", "g", " ", "w", "i", "d", "t", "h", "=", "\"">>

ImgHeight ==
    <<"\"", " ", "h", "e", "i", "g", "h", "t", "=", "\"">>

ImgAlt ==
    <<" ", "a", "l", "t", "=", "\"">>

ImgSrc ==
    <<" ", "s", "r", "c", "=", "\"">>

ImgClose ==
    <<"\"", " ", "s", "t", "y", "l", "e", "=", "\"", "m", "a", "r",
      "g", "i", "n", "-", "l", "e", "f", "t", ":", " ", "a", "u",
      "t", "o", ";", " ", "m", "a", "r", "g", "i", "n", "-", "r",
      "i", "g", "h", "t", ":", " ", "a", "u", "t", "o", ";", "\"",
      ">">>

JustifyLastLine ==
    <<"s", "t", "y", "l", "e", "=", "\"", "t", "e", "x", "t", "-",
      "a", "l", "i", "g", "n", "-", "l", "a", "s", "t", ":", " ",
      "j", "u", "s", "t", "i", "f", "y", ";", "\"">>

\* the characters of the strings the model keeps whole: tag names and image sources
Chars(str) ==
    CASE str = "p" -> <<"p">>
      [] str = "img" -> <<"i", "m", "g">>
      [] OTHER -> <<str>>

\* String(n) of an integer
RECURSIVE Digits(_)
Digits(n) ==
    IF n < 0 THEN <<"-">> \o Digits(0 - n)
    ELSE IF n < 10 THEN <<ToString(n)>>
    ELSE Digits(n \div 10) \o <<ToString(n % 10)>>

\* escapeHTML: & < > " ' replaced by their entities
RECURSIVE escapeHTML(_)
escapeHTML(text) ==
    IF text = <<>> THEN <<>>
    ELSE (CASE text[1] = "&" -> <<"&", "a", "m", "p", ";">>
            [] text[1] = "<" -> <<"&", "l", "t", ";">>
            [] text[1] = ">" -> <<"&", "g", "t", ";">>
            [] text[1] = "\"" -> <<"&", "q", "u", "o", "t", ";">>
            [] text[1] = "'" -> <<"&", "#", "0", "3", "9", ";">>
            [] OTHER -> <<text[1]>>)
         \o escapeHTML(Tail(text))

\* Array.prototype.join(sep) over strings
RECURSIVE Join(_, _)
Join(strs, sep) ==
    IF strs = <<>> THEN <<>>
    ELSE IF Len(strs) = 1 THEN strs[1]
    ELSE strs[1] \o sep \o Join(Tail(strs), sep)

\* `<h${level}>${sanitizedContent}</h${level}>`
convertHeading(block) ==
    <<"<", "h">> \o Digits(block.metadata.level) \o <<">">>
        \o escapeHTML(block.content)
        \o <<"<", "/", "h">> \o Digits(block.metadata.level) \o <<">">>

\* `<img width="${width}" height="${height}"${altAttribute} src="${source}" style="...">`
convertImage(block) ==
    LET dimensions == block.metadata.dimensions
        altAttribute ==
            IF "alt" \in DOMAIN block.metadata /\ block.metadata.alt # <<>>
            THEN ImgAlt \o escapeHTML(block.metadata.alt) \o <<"\"">>
            ELSE <<>>
    IN  ImgOpen \o Digits(dimensions.width) \o ImgHeight \o Digits(dimensions.height)
            \o <<"\"">> \o altAttribute \o ImgSrc \o Chars(block.src) \o ImgClose

\* the text of a segment inside the tags of its style
convertSegment(segment) ==
    LET bold == IF segment.style.bold
                THEN <<"<", "s", "t", "r", "o", "n", "g", ">">> \o segment.text
                         \o <<"<", "/", "s", "t", "r", "o", "n", "g", ">">>
                ELSE segment.text
        italic == IF segment.style.italic
                  THEN <<"<", "e", "m", ">">> \o bold \o <<"<", "/", "e", "m", ">">>
                  ELSE bold
    IN  IF segment.style.underline
        THEN <<"<", "u", ">">> \o italic \o <<"<", "/", "u", ">">>
        ELSE italic

\* block.segments.at(-1)?.metadata?.continuesOnNextPage
lastSegmentContinuesOnNextPage(block) ==
    /\ block.segments # <<>>
    /\ LET last == block.segments[Len(block.segments)] IN
          /\ "metadata" \in DOMAIN last
          /\ "continuesOnNextPage" \in DOMAIN last.metadata
          /\ last.metadata.continuesOnNextPage

\* `<${tag} ${lastSegmentContinuesOnNextPageAttribute}>${content}</${tag}>`
convertRichText(block) ==
    LET tag == Chars(block.metadata.tag)
        content ==
            Join([k \in 1..Len(block.segments) |-> convertSegment(block.segments[k])],
                 <<" ">>)
        lastSegmentContinuesOnNextPageAttribute ==
            IF lastSegmentContinuesOnNextPage(block) THEN JustifyLastLine ELSE <<>>
    IN  <<"<">> \o tag \o <<" ">> \o lastSegmentContinuesOnNextPageAttribute \o <<">">>
            \o content \o <<"<", "/">> \o tag \o <<">">>

convertBlock(block) ==
    CASE block.type = "heading" -> convertHeading(block)
      [] block.type = "image" -> convertImage(block)
      [] block.type = "richtext" -> convertRichText(block)

\* blocks.map(block => this.convertBlock(block)).join("\n")
convert(bs) ==
    Join([k \in 1..Len(bs) |-> convertBlock(bs[k])], <<"\n">>)

\* Page.render()
render(page) == convert(page.blocks)

\* a caller of Page that places blocks and renders the page
RenderInit ==
    /\ PageInit
    /\ paginator.containerHeight >= 80
    /\ \A font \in FontSet : glyphWidth[font] = 10

\* page.render() on the page in use
Render ==
    /\ pc = "loop"
    /\ rendered' = <<[blocks |-> currentPage.blocks, html |-> render(currentPage)]>>
    /\ UNCHANGED <<paginator, glyphWidth, blocks, index, pages, currentPage,
                   pageResult, lastCall, created, pc, runVars, heapVars,
                   readerVars, document, parsed, twin, home>>

RenderNext == Offer \/ TurnPage \/ Render

RenderSpec == RenderInit /\ [][RenderNext]_vars

Rendered == rendered # <<>>
RenderedBlocks == rendered[1].blocks
RenderedHTML == rendered[1].html

Unstyled(segment) ==
    ~segment.style.bold /\ ~segment.style.italic /\ ~segment.style.underline

\* a RichText block of one unstyled segment that does not continue on a next page
WholeUnstyled(block) ==
    /\ block.type = "richtext"
    /\ Len(block.segments) = 1
    /\ Unstyled(block.segments[1])
    /\ ~lastSegmentContinuesOnNextPage(block)

\* '<t>' + text + '</t>'
BareElement(tag, text) ==
    <<"<">> \o Chars(tag) \o <<">">> \o text \o <<"<", "/">> \o Chars(tag) \o <<">">>

\* C19: render() of a page that holds one RichText block, placed whole, of
\* tag t and one unstyled segment, is exactly '<t>' + the segment's text +
\* '</t>': the opening tag holds the tag name and nothing else.
C19_WholeUnstyledRendersBare ==
    (/\ Rendered
     /\ Len(RenderedBlocks) = 1
     /\ WholeUnstyled(RenderedBlocks[1]))
        => RenderedHTML = BareElement(RenderedBlocks[1].metadata.tag,
                                      RenderedBlocks[1].segments[1].text)

\* what the code returns in that case: a space follows the tag name
C19_SpaceInOpeningTag ==
    (/\ Rendered
     /\ Len(RenderedBlocks) = 1
     /\ WholeUnstyled(RenderedBlocks[1]))
        => RenderedHTML = <<"<">> \o Chars(RenderedBlocks[1].metadata.tag) \o <<" ", ">">>
                              \o RenderedBlocks[1].segments[1].text
                              \o <<"<", "/">> \o Chars(RenderedBlocks[1].metadata.tag)
                              \o <<">">>

----------------------------------------------------------------------------
(* HTMLToBlocksParser.parse: the blocks of a chapter's markup.  The input   *)
(* is the tree DOMParser makes of the markup; a node is an element or a     *)
(* text node, an absent attribute is the empty value.                       *)

MaxChildren == 2   \* most child elements of the section of a chapter

Text(text) ==
    [tag |-> "#text", id |-> <<>>, src |-> "", width |-> 0, height |-> 0,
     text |-> text, children |-> <<>>]

Element(tag, id, children) ==
    [tag |-> tag, id |-> id, src |-> "", width |-> 0, height |-> 0,
     text |-> <<>>, children |-> children]

Img(id, src, width, height) ==
    [tag |-> "img", id |-> id, src |-> src, width |-> width, height |-> height,
     text |-> <<>>, children |-> <<>>]

\* Node.textContent
RECURSIVE textContent(_)
textContent(node) ==
    IF node.tag = "#text" THEN node.text
    ELSE Join([k \in 1..Len(node.children) |-> textContent(node.children[k])], <<>>)

RECURSIVE trimStart(_)
trimStart(text) ==
    IF text # <<>> /\ IsWhitespace(text[1]) THEN trimStart(Tail(text)) ELSE text

RECURSIVE trimEnd(_)
trimEnd(text) ==
    IF text # <<>> /\ IsWhitespace(text[Len(text)])
    THEN trimEnd(SubSeq(text, 1, Len(text) - 1))
    ELSE text

\* String.prototype.trim
trim(text) == trimEnd(trimStart(text))

getElementStyle(element) ==
    [bold |-> element.tag \in {"strong", "b"},
     italic |-> element.tag \in {"em", "i"},
     underline |-> element.tag = "u"]

\* parent?.closest(...) !== null; `above` holds the tags of the node's
\* parent and of the parent's ancestors
getParentStyle(above) ==
    [bold |-> above \cap {"strong", "b"} # {},
     italic |-> above \cap {"em", "i"} # {},
     underline |-> "u" \in above]

isBlockElement(element) ==
    element.tag \in {"p", "div", "h1", "h2", "h3", "h4", "h5", "h6"}

createEmptyBlock(tag) ==
    [type |-> "richtext", segments |-> <<>>, metadata |-> [tag |-> tag]]

\* if (currentBlock.segments.length) blocks.push(currentBlock)
PushIfSegments(done, currentBlock) ==
    IF currentBlock.segments # <<>> THEN Append(done, currentBlock) ELSE done

\* HTMLToRichTextConverter.processNodes: the for loop from child k on, with
\* the locals `blocks` (done) and `currentBlock`
RECURSIVE processNodesFrom(_, _, _, _, _)
processNodesFrom(parent, above, k, done, currentBlock) ==
    IF k > Len(parent.children) THEN PushIfSegments(done, currentBlock)
    ELSE IF parent.children[k].tag = "#text"
    THEN IF trim(parent.children[k].text) = <<>>
         THEN processNodesFrom(parent, above, k + 1, done, currentBlock)
         ELSE processNodesFrom(parent, above, k + 1, done,
                  [currentBlock EXCEPT !.segments =
                      Append(@, [text |-> parent.children[k].text,
                                 style |-> getParentStyle(above)])])
    ELSE IF isBlockElement(parent.children[k])
    THEN processNodesFrom(parent, above, k + 1,
             PushIfSegments(done, currentBlock)
                 \o processNodesFrom(parent.children[k],
                                     above \cup {parent.children[k].tag}, 1, <<>>,
                                     createEmptyBlock(parent.children[k].tag)),
             createEmptyBlock(parent.tag))
    ELSE processNodesFrom(parent, above, k + 1, done,
             [currentBlock EXCEPT !.segments =
                 Append(@, [text |-> textContent(parent.children[k]),
                            style |-> getElementStyle(parent.children[k])])])

processNodes(parent, above) ==
    processNodesFrom(parent, above \cup {parent.tag}, 1, <<>>,
                     createEmptyBlock(parent.tag))

\* parseInt(element.tagName[1])
HeadingLevelOf(tag) ==
    CASE tag = "h1" -> 1 [] tag = "h2" -> 2 [] tag = "h3" -> 3
      [] tag = "h4" -> 4 [] tag = "h5" -> 5 [] tag = "h6" -> 6

\* handleHeading: the block pushed
handleHeading(element) ==
    [type |-> "heading", content |-> trim(textContent(element)),
     metadata |-> [level |-> HeadingLevelOf(element.tag)]]

\* parse's imageSourceToURL: the images of the chapter content, by source
imageSourceToURL == [source \in {"a.png"} |-> "img"]

\* handleImage: the block pushed, or the error thrown (the documents carry no
\* alt attribute)
handleImage(element) ==
    IF element.src = "" THEN Throw("SHOULD NEVER HAPPEN: Image source not found")
    ELSE IF element.src \notin DOMAIN imageSourceToURL
    THEN Throw("SHOULD NEVER HAPPEN: Image URL not found for source")
    ELSE [type |-> "image", src |-> imageSourceToURL[element.src],
          metadata |->
              [dimensions |->
                  [width |-> IF element.width # 0 THEN element.width ELSE 300,
                   height |-> IF element.height # 0 THEN element.height ELSE 200]]]

\* HTMLToBlocksParser.processNode with this.blocks = done: this.blocks after
\* the call, or the error thrown.  flushCurrentBlock does nothing, since
\* this.currentBlock is never assigned.  processNodeFrom is the loop of the
\* default case from child k on.
RECURSIVE processNodeFrom(_, _, _, _)
processNodeFrom(element, above, k, done) ==
    IF k > Len(element.children) THEN Parsed(done)
    ELSE IF element.children[k].tag = "#text"
    THEN processNodeFrom(element, above, k + 1, done)
    ELSE IF element.children[k].tag \in {"h1", "h2", "h3", "h4", "h5", "h6"}
    THEN processNodeFrom(element, above, k + 1,
                         Append(done, handleHeading(element.children[k])))
    ELSE IF element.children[k].tag = "img"
    THEN IF handleImage(element.children[k]).type = "throw"
         THEN handleImage(element.children[k])
         ELSE processNodeFrom(element, above, k + 1,
                              Append(done, handleImage(element.children[k])))
    ELSE IF element.children[k].tag \in {"p", "div", "span"}
    THEN processNodeFrom(element, above, k + 1,
                         done \o processNodes(element.children[k], above))
    ELSE IF processNodeFrom(element.children[k],
                            above \cup {element.children[k].tag}, 1, done).type = "throw"
    THEN processNodeFrom(element.children[k],
                         above \cup {element.children[k].tag}, 1, done)
    ELSE processNodeFrom(element, above, k + 1,
             processNodeFrom(element.children[k],
                             above \cup {element.children[k].tag}, 1, done).blocks)

\* parse(chapterContent): processNode(document.body), flushCurrentBlock,
\* return this.blocks
parse(body) == processNodeFrom(body, {body.tag}, 1, <<>>)

\* the markup of a chapter: a section, with or without an id, of headings,
\* images, paragraphs (of text, of an inline element, of both, of a span)
\* and a div around text and a paragraph; no id occurs twice
InlineSet == {Element("em", id, <<Text(TextCD)>>) : id \in {<<>>, IdY}}

ParagraphChildrenSet ==
    {<<Text(TextAB)>>, <<Text(TextBlank)>>, <<Element("span", <<>>, <<Text(TextAB)>>)>>}
        \cup {<<inline>> : inline \in InlineSet}
        \cup {<<Text(TextAB), inline>> : inline \in InlineSet}

ElementSet ==
    {Element("h1", id, <<Text(TextAB)>>) : id \in {<<>>, IdX}}
        \cup {Img(id, src, 60, 80) : id \in {<<>>, IdX}, src \in {"a.png", "b.png", ""}}
        \cup {Img(<<>>, "a.png", 0, 0)}
        \cup {Element("p", id, children) :
                 id \in {<<>>, IdX}, children \in ParagraphChildrenSet}
        \cup {Element("div", id, <<Text(TextAB), Element("p", <<>>, <<Text(TextCD)>>)>>) :
                 id \in {<<>>, IdX}}

\* the ids of the elements of a tree, one entry for each element that has one
RECURSIVE IdList(_)
IdList(node) ==
    (IF node.id # <<>> THEN <<node.id>> ELSE <<>>)
        \o Join([k \in 1..Len(node.children) |-> IdList(node.children[k])], <<>>)

IdsIn(node) == {IdList(node)[k] : k \in 1..Len(IdList(node))}

DistinctIds(node) == Cardinality(IdsIn(node)) = Len(IdList(node))

\* what a section holds: elements, and text that no tag wraps
SectionChildSet == ElementSet \cup {Text(TextAB), Text(TextBlank)}

DocumentSet ==
    {body \in {Element("body", <<>>, <<Element("section", id, children)>>) :
                  id \in {<<>>, IdZ},
                  children \in SeqsOf(SectionChildSet, 1, MaxChildren)} :
        DistinctIds(body)}

ParseInit ==
    /\ document \in DocumentSet
    /\ parsed = <<>>
    /\ NoRender
    /\ NoTwin
    /\ NoHome
    /\ paginator \in ReaderPaginatorSet
    /\ glyphWidth \in [FontSet -> {10}]
    /\ blocks = <<>>
    /\ index = 1
    /\ pages = <<>>
    /\ currentPage = NewPage(1, TextMetricsOf(paginator))
    /\ pageResult = [type |-> "none"]
    /\ lastCall = <<>>
    /\ created = 1
    /\ pc = "idle"
    /\ run = 1
    /\ firstRun = <<>>
    /\ NoHeap
    /\ NoReader

\* new HTMLToBlocksParser().parse(chapterContent)
Parse ==
    /\ parsed = <<>>
    /\ parsed' = <<parse(document)>>
    /\ UNCHANGED <<paginator, glyphWidth, blocks, index, pages, currentPage,
                   pageResult, lastCall, created, pc, runVars, heapVars,
                   readerVars, rendered, document, twin, home>>

ParseNext == Parse

ParseSpec == ParseInit /\ [][ParseNext]_vars

ParseReturned == parsed # <<>> /\ parsed[1].type = "blocks"
ParsedBlocks == parsed[1].blocks

\* the places of a block list that carry `id`: <<k, 0>> is block k, <<k, j>>
\* is segment j of block k
Targets(bs, id) ==
    {<<k, 0>> : k \in {n \in 1..Len(bs) : HasId(bs[n], id)}}
        \cup UNION {{<<k, j>> : j \in {n \in 1..Len(bs[k].segments) :
                                          HasId(bs[k].segments[n], id)}} :
                        k \in {n \in 1..Len(bs) : bs[n].type = "richtext"}}

\* the ids carried by the inline elements of a tree
RECURSIVE InlineIds(_)
InlineIds(node) ==
    (IF node.id # <<>> /\ node.tag \in {"em", "strong", "b", "i", "u", "span"}
     THEN {node.id} ELSE {})
        \cup UNION {InlineIds(node.children[k]) : k \in 1..Len(node.children)}

\* C20: when parse returns, every id attribute of the markup is on exactly
\* one target of the result: on a segment when an inline element carries
\* it, on a block (and on no segment) when a heading, an image, a paragraph
\* or a container carries it.
C20_EveryIdOnOneTarget ==
    ParseReturned =>
        \A id \in IdsIn(document) :
            /\ Cardinality(Targets(ParsedBlocks, id)) = 1
            /\ \A place \in Targets(ParsedBlocks, id) :
                  (place[2] # 0) <=> (id \in InlineIds(document))

\* what the code does: no block and no segment of the result carries an id
C20_NoIdAttached ==
    ParseReturned => \A id \in {IdX, IdY, IdZ} : Targets(ParsedBlocks, id) = {}

\* a container (an element that processNode handles by its default case)
\* holds, among its own children, a text node that is not blank
RECURSIVE HasBareText(_)
HasBareText(node) ==
    /\ node.tag \notin {"#text", "h1", "h2", "h3", "h4", "h5", "h6", "img", "p", "div", "span"}
    /\ \E k \in 1..Len(node.children) :
          \/ /\ node.children[k].tag = "#text"
             /\ trim(node.children[k].text) # <<>>
          \/ HasBareText(node.children[k])

\* C21: parse of markup in which a container such as section directly holds
\* a non-blank text node raises an error; it returns no block list.
C21_BareTextRaises ==
    (parsed # <<>> /\ HasBareText(document)) => parsed[1].type = "throw"

\* what the code does: the text is skipped, and the blocks returned are those
\* of the same markup without the text nodes of its containers
RECURSIVE WithoutBareText(_)
WithoutBareText(node) ==
    IF node.tag \in {"#text", "h1", "h2", "h3", "h4", "h5", "h6", "img", "p", "div", "span"}
    THEN node
    ELSE [node EXCEPT !.children =
             Join([k \in 1..Len(node.children) |->
                      IF node.children[k].tag = "#text" THEN <<>>
                      ELSE <<WithoutBareText(node.children[k])>>], <<>>)]

C21_BareTextSkipped ==
    parsed # <<>> => parsed[1] = parse(WithoutBareText(document))

----------------------------------------------------------------------------
(* Properties of the heights: the value a result carries, the height a     *)
(* placed block takes, the page's capacity                                  *)

\* C22: the remainingHeight carried by a page-has-space result is the page's
\* remainingHeight at the moment tryAddBlock returns, the value the next
\* call on that page starts from.
C22_ResultCarriesRemainingHeight ==
    (Called /\ pageResult.type = "page-has-space")
        => pageResult.remainingHeight = After.remainingHeight

\* what the code does: the result is built before tryAddBlock takes the
\* paragraph spacing off, so it is too high by paragraphSpacing
C22_ResultAheadBySpacing ==
    (Called /\ pageResult.type = "page-has-space")
        => pageResult.remainingHeight
               = After.remainingHeight + textMetrics.paragraphSpacing

\* the word that forced the page break of the last split, located by the
\* number of words that went on the page: the segment of the offered block
\* that holds the first word left over (0-based), and that word's index in it
WordsUpTo(segments, k) == Len(WordsOfSegments(SubSeq(segments, 1, k)))
CompletedWordCount == Len(WordsOfSegments(PlacedBlock.segments))

BreakSegment ==
    CHOOSE k \in 0..(Len(Offered.segments) - 1) :
        /\ WordsUpTo(Offered.segments, k) <= CompletedWordCount
        /\ CompletedWordCount < WordsUpTo(Offered.segments, k + 1)

BreakWord == CompletedWordCount - WordsUpTo(Offered.segments, BreakSegment)

BrokeAtSegmentStart ==
    /\ SplitHappened
    /\ CompletedWordCount < Len(WordsOfSegments(Offered.segments))
    /\ BreakWord = 0
    /\ BreakSegment >= 1

\* C23: when the word that forces the page break is word 0 of segment k
\* (k >= 1), the completed block holds the original segments 0..k-1 and the
\* remainder the original segments k.., all unchanged; neither side holds a
\* segment that is not one of the original's.
C23_SplitAtSegmentBoundary ==
    BrokeAtSegmentStart =>
        /\ PlacedBlock.segments = SubSeq(Offered.segments, 1, BreakSegment)
        /\ pageResult.remainingBlock.segments
               = SubSeq(Offered.segments, BreakSegment + 1, Len(Offered.segments))

\* the first segment filled the page's last line and the first word of the
\* second segment, whose text has leading and doubled whitespace, broke
C23_Witness ==
    /\ BrokeAtSegmentStart
    /\ BreakSegment = 1
    /\ Offered.segments[2].text = TextCD
    /\ pageResult.remainingBlock.segments[1].text = TextCD

----------------------------------------------------------------------------
(* Word wrap: paragraphs whose words wrap into two or three lines of 30px   *)

\* four words of one character; a word wider than the line, then a word
TextCDEF == <<"c", " ", "d", " ", "e", " ", "f">>
TextBA == <<"b", "b", "b", "b", " ", "a">>

WrapSegmentSet ==
    {Segment(TextCDEF, FALSE), Segment(TextBA, FALSE), Segment(TextAB, FALSE),
     Segment(TextCD, TRUE)}

WrapBlockSet ==
    {RichText(segments) : segments \in SeqsOf(WrapSegmentSet, 1, MaxSegments)}

WrapPaginatorSet ==
    [containerWidth : {30}, containerHeight : {40, 80, 120},
     fontSize : {16}, lineHeight : {1}]

WrapInit ==
    /\ paginator \in WrapPaginatorSet
    /\ glyphWidth \in [FontSet -> GlyphWidths]
    /\ blocks \in SeqsOf(WrapBlockSet, 1, 1)
    /\ index = 1
    /\ pages = <<>>
    /\ currentPage = NewPage(1, TextMetricsOf(paginator))
    /\ pageResult = [type |-> "none"]
    /\ lastCall = <<>>
    /\ created = 1
    /\ pc = "loop"
    /\ run = 1
    /\ firstRun = <<>>
    /\ NoHeap
    /\ NoReader
    /\ NoView
    /\ NoTwin
    /\ NoHome

WrapSpec == WrapInit /\ [][Next]_vars

\* the words of a segment list in order, each with the font of its segment
RECURSIVE WordItems(_)
WordItems(segments) ==
    IF segments = <<>> THEN <<>>
    ELSE [k \in 1..Len(SplitWords(segments[1].text)) |->
             [word |-> SplitWords(segments[1].text)[k],
              font |-> updateCanvasFont(segments[1])]]
         \o WordItems(Tail(segments))

\* the reference greedy word wrap: the number of lines of items k.. when the
\* open line holds `onLine` words of total width `width` and `closed` lines
\* are closed.  A word is measured with a leading space exactly when it is
\* not the first word on its line; a line is closed only when it holds a
\* word and the next word would exceed `maxWidth`.
RECURSIVE WrapFrom(_, _, _, _, _, _)
WrapFrom(items, k, onLine, width, closed, maxWidth) ==
    IF k > Len(items) THEN closed + (IF onLine > 0 THEN 1 ELSE 0)
    ELSE IF onLine = 0
    THEN WrapFrom(items, k + 1, 1, measureText(items[k].font, items[k].word),
                  closed, maxWidth)
    ELSE IF width + measureText(items[k].font, <<" ">> \o items[k].word) > maxWidth
    THEN WrapFrom(items, k, 0, 0, closed + 1, maxWidth)
    ELSE WrapFrom(items, k + 1, onLine + 1,
                  width + measureText(items[k].font, <<" ">> \o items[k].word),
                  closed, maxWidth)

ReferenceLines(block) ==
    WrapFrom(WordItems(block.segments), 1, 0, 0, 0, textMetrics.containerWidth)

PlacedWhole ==
    /\ Placed
    /\ Offered.type = "richtext"
    /\ pageResult.type = "page-has-space"

\* the height the last call took for the block, paragraph spacing apart
ConsumedHeight ==
    Before.remainingHeight - After.remainingHeight - textMetrics.paragraphSpacing

\* C24: a RichText block placed whole consumes, before the paragraph
\* spacing, one line height for each line of the reference greedy word wrap
\* of its words, and nothing when it has no words.
C24_HeightIsReferenceWrap ==
    PlacedWhole => ConsumedHeight = lineHeight * ReferenceLines(Offered)

\* what the code does when every glyph has a positive width: never fewer
\* lines than the reference wrap
C24_AtLeastReferenceWrap ==
    (PlacedWhole /\ \A font \in FontSet : glyphWidth[font] > 0)
        => ConsumedHeight >= lineHeight * ReferenceLines(Offered)

----------------------------------------------------------------------------
(* Two pages of equal container and paragraph spacing, of different        *)
(* fontSize and lineHeight, given the same RichText blocks                  *)

\* the TextMetrics of the second page
TwinMetrics(tm) == [tm EXCEPT !.fontSize = 24, !.lineHeight = 2]

TwinBlockSet ==
    {BlankBlock,
     RichText(<<Segment(TextAB, FALSE)>>),
     RichText(<<Segment(TextCD, TRUE)>>),
     RichText(<<Segment(TextAB, FALSE), Segment(TextCD, TRUE)>>)}

TwinInit ==
    /\ paginator \in PaginatorSet
    /\ glyphWidth \in [FontSet -> GlyphWidths]
    /\ twin = <<[metrics |-> TwinMetrics(TextMetricsOf(paginator)),
                 page |-> NewPage(1, TwinMetrics(TextMetricsOf(paginator))),
                 result |-> [type |-> "none"]]>>
    /\ blocks = <<>>
    /\ index = 1
    /\ pages = <<>>
    /\ currentPage = NewPage(1, TextMetricsOf(paginator))
    /\ pageResult = [type |-> "none"]
    /\ lastCall = <<>>
    /\ created = 1
    /\ pc = "loop"
    /\ run = 1
    /\ firstRun = <<>>
    /\ NoHeap
    /\ NoReader
    /\ NoView
    /\ NoHome

\* the blocks the caller may pass next: a new block, or the remainder the
\* last call handed back
TwinOfferSet ==
    TwinBlockSet \cup (IF pageResult.type = "page-completed"
                       THEN {pageResult.remainingBlock} ELSE {})

\* tryAddBlock(block) on both pages
TwinOffer ==
    /\ pc = "loop"
    /\ calls < MaxCalls
    /\ \E block \in TwinOfferSet :
          /\ Call(currentPage, block)
          /\ twin' = <<[metrics |-> twin[1].metrics,
                        page |-> tryAddBlock(twin[1].metrics, twin[1].page, block).page,
                        result |->
                            tryAddBlock(twin[1].metrics, twin[1].page, block).result]>>
    /\ calls' = calls + 1
    /\ UNCHANGED <<paginator, glyphWidth, blocks, index, pages, created, runVars,
                   heap, refs, heapBefore, readerVars, viewVars, home>>

\* new Page(textMetrics) for both callers
TwinTurn ==
    /\ pc = "loop"
    /\ Called
    /\ created' = created + 1
    /\ currentPage' = NewPage(created + 1, textMetrics)
    /\ twin' = <<[twin[1] EXCEPT !.page = NewPage(created + 1, twin[1].metrics)]>>
    /\ lastCall' = <<>>
    /\ UNCHANGED <<paginator, glyphWidth, blocks, index, pages, pageResult, pc,
                   runVars, heapVars, readerVars, viewVars, home>>

TwinNext == TwinOffer \/ TwinTurn

TwinSpec == TwinInit /\ [][TwinNext]_vars

\* C25: two pages of equal containerWidth, containerHeight and
\* paragraphSpacing but of different fontSize and lineHeight, given the same
\* sequence of RichText blocks, return the same results (the same
\* remainders, so the same split points) and hold the same blocks and the
\* same remainingHeight.
C25_FontSizeIndependent ==
    /\ twin[1].metrics.fontSize # textMetrics.fontSize
    /\ twin[1].metrics.lineHeight # textMetrics.lineHeight
    /\ twin[1].metrics.paragraphSpacing = textMetrics.paragraphSpacing
    /\ twin[1].result = pageResult
    /\ twin[1].page.blocks = currentPage.blocks
    /\ twin[1].page.remainingHeight = currentPage.remainingHeight

\* both pages split a block inside a segment after a block was placed whole
C25_Witness ==
    /\ SplitHappened
    /\ Len(currentPage.blocks) = 2
    /\ twin[1].result.type = "page-completed"
    /\ Len(twin[1].result.remainingBlock.segments) = 1
    /\ twin[1].result.remainingBlock.segments[1].text = <<"e">>

----------------------------------------------------------------------------
(* The capacity of a page *)

RECURSIVE SumOfHeights(_)
SumOfHeights(bs) ==
    IF bs = <<>> THEN 0 ELSE BlockHeight(bs[1]) + SumOfHeights(Tail(bs))

\* no block on the page has a negative height (an image whose height
\* attribute is negative does)
NonNegativeHeights(page) ==
    \A k \in 1..Len(page.blocks) : BlockHeight(page.blocks[k]) >= 0

C27_NoEmptyPage ==
    (pc = "done" /\ blocks # <<>>) =>
        \A k \in 1..Len(pages) : pages[k].blocks # <<>>

\* a returned run of two pages: the first was full when the second block
\* came, and the second page took that block whole
C27_Witness ==
    /\ pc = "done"
    /\ Len(pages) = 2
    /\ Len(blocks) = 2
    /\ pages[1].remainingHeight <= 0
    /\ pages[2].blocks = <<blocks[2]>>

\* the errors of the RichText path that the code marks as impossible (the
\* null tests on completedBlock and remainingBlock cannot fail: splitBlock
\* returns two objects or throws)
SplitErrors ==
    {"SHOULD NOT OCCUR segmentIndex is out of bounds",
     "SHOULD NOT OCCUR wordIndex is out of bounds",
     "SHOULD NOT OCCUR completedBlock is null",
     "SHOULD NOT OCCUR remainingBlock is null since we are in a valid word index"}

\* C28: on every RichText split the completed block and the remainder hold
\* at least one word each, so the remainder has fewer words than the block
\* offered; and no call ends in one of the SHOULD NOT OCCUR errors of
\* tryAddRichTextBlock and splitBlock.
C28_SplitSidesHaveWords ==
    /\ SplitHappened =>
          /\ WordsOfSegments(PlacedBlock.segments) # <<>>
          /\ WordsOfSegments(pageResult.remainingBlock.segments) # <<>>
          /\ Len(WordsOfSegments(pageResult.remainingBlock.segments))
                 < Len(WordsOfSegments(Offered.segments))
    /\ pageResult.type = "throw" => pageResult.message \notin SplitErrors

\* a block that begins with a word wider than the line was split: the
\* word went on the page alone on its line
C28_Witness ==
    /\ SplitHappened
    /\ Offered.segments[1].text = TextBA
    /\ measureText(updateCanvasFont(Offered.segments[1]), <<"b", "b", "b", "b">>)
           > textMetrics.containerWidth
    /\ WordsOfSegments(PlacedBlock.segments) = <<<<"b", "b", "b", "b">>>>

----------------------------------------------------------------------------
(* Overlapping getChapterPages calls *)

\* in this step the call of the caller left its await and entered
\* calculatePages
StartsPaginating(caller) ==
    /\ tasks[caller] # Idle
    /\ tasks[caller].stage = "awaiting"
    /\ tasks'[caller] # Idle
    /\ tasks'[caller].stage = "paginating"

\* C29: when two getChapterPages calls for the same uncached chapter
\* overlap, the chapter is paginated once: calculatePages is never entered
\* for a chapter whose pages are in the chapter cache, so the array in the
\* cache is the one every call resolves to until clearCache.
C29_PaginatedOnce ==
    [][\A caller \in Callers :
          StartsPaginating(caller) => tasks[caller].chapter \notin DOMAIN chapterCache]_vars

\* what the code does keep: a call that begins when the chapter is in the
\* cache is answered from the cache without waiting
C29_CachedCallAnswered ==
    [][\A caller \in Callers :
          (tasks[caller] = Idle /\ tasks'[caller] # Idle)
              => tasks'[caller].chapter \notin DOMAIN chapterCache]_vars

----------------------------------------------------------------------------
(* The two-page reader view: Home (pages/Home.tsx) and BookView.  Of the    *)
(* pages of the chapter only their number and the place of the anchor      *)
(* matter to pageIndex.                                                      *)

MaxViewPages == 4   \* most pages of a chapter shown in the view

Components == {"Home", "BookView"}

\* useState: selectedChapter null, targetId null, pages [], pageIndex 0; of
\* selectedChapter and targetId only whether they are set is kept, and
\* updating says that updatePages has not called setPages yet
Mounted(component) ==
    [component |-> component, selectedChapter |-> FALSE, targetId |-> FALSE,
     updating |-> FALSE, pagesLength |-> 0, pageIndex |-> 0]

Shown == home[1]

HomeInit ==
    /\ home \in {<<Mounted(component)>> : component \in Components}
    /\ NoView
    /\ NoTwin
    /\ paginator \in ReaderPaginatorSet
    /\ glyphWidth \in [FontSet -> {10}]
    /\ blocks = <<>>
    /\ index = 1
    /\ pages = <<>>
    /\ currentPage = NewPage(1, TextMetricsOf(paginator))
    /\ pageResult = [type |-> "none"]
    /\ lastCall = <<>>
    /\ created = 1
    /\ pc = "idle"
    /\ run = 1
    /\ firstRun = <<>>
    /\ NoHeap
    /\ NoReader

HomeUnchanged ==
    UNCHANGED <<paginator, glyphWidth, blocks, index, pages, currentPage,
                pageResult, lastCall, created, pc, runVars, heapVars,
                readerVars, viewVars, twin>>

\* pages.findIndex(page => page.checkIfPageContainsId(targetId)) over a
\* list of that many pages: a 0-based index, or -1
FindIndexResults(pagesLength) == (0 - 1)..(pagesLength - 1)

\* the targetId effect: nothing without a targetId, without pages, or when
\* no page holds the id; else the spread of the page is shown and the
\* targetId is cleared
TargetEffect(state, targetPageIndex) ==
    IF ~state.targetId \/ state.pagesLength = 0 THEN state
    ELSE IF targetPageIndex = 0 - 1 THEN state
    ELSE [state EXCEPT !.pageIndex = targetPageIndex - (targetPageIndex % 2),
                       !.targetId = FALSE]

\* Maths of handleKeyDown
Max(a, b) == IF a >= b THEN a ELSE b
Min(a, b) == IF a <= b THEN a ELSE b

\* Home, onNavigate of the table of contents (shown while no chapter is
\* selected) for a source whose file is in the manifest: the chapter is
\* selected and updatePages starts; with an id the targetId is set and its
\* effect runs over the pages the state still holds
HomeNavigate ==
    \E withId \in BOOLEAN :
    \E targetPageIndex \in FindIndexResults(Shown.pagesLength) :
        /\ Shown.component = "Home"
        /\ ~Shown.selectedChapter
        /\ home' = <<TargetEffect([Shown EXCEPT !.selectedChapter = TRUE,
                                                !.updating = TRUE,
                                                !.targetId = @ \/ withId],
                                  targetPageIndex)>>
        /\ HomeUnchanged

\* Home, updatePages resolves: setPages(pages) with the pages of the
\* selected chapter (calculatePages returns at least one), then the
\* targetId effect runs over them
UpdatePages ==
    \E pagesLength \in 1..MaxViewPages :
    \E targetPageIndex \in FindIndexResults(pagesLength) :
        /\ Shown.component = "Home"
        /\ Shown.updating
        /\ home' = <<TargetEffect([Shown EXCEPT !.updating = FALSE,
                                                !.pagesLength = pagesLength],
                                  targetPageIndex)>>
        /\ HomeUnchanged

\* BookView, onNavigate: reader.navigateToId(source) resolved with the
\* pages of the chapter and a page index that is not -1
BookViewNavigate ==
    \E pagesLength \in 1..MaxViewPages :
    \E navigatedIndex \in 0..(pagesLength - 1) :
        /\ Shown.component = "BookView"
        /\ ~Shown.selectedChapter
        /\ home' = <<[Shown EXCEPT !.pagesLength = pagesLength,
                                   !.pageIndex = navigatedIndex,
                                   !.selectedChapter = TRUE]>>
        /\ HomeUnchanged

\* the back button while a chapter is selected
Back ==
    /\ Shown.selectedChapter
    /\ home' = <<[Shown EXCEPT !.selectedChapter = FALSE]>>
    /\ HomeUnchanged

\* handleKeyDown, listening on the window
ArrowLeft ==
    /\ home' = <<[Shown EXCEPT !.pageIndex = Max(0, Shown.pageIndex - 2)]>>
    /\ HomeUnchanged

ArrowRight ==
    /\ home' = <<[Shown EXCEPT !.pageIndex =
                                   Min(Shown.pagesLength - 1, Shown.pageIndex + 2)]>>
    /\ HomeUnchanged

\* BookContent is rendered while a chapter is selected; the previous button
\* while pageIndex > 0, the next button while pageIndex < pages.length - 1
PreviousButton ==
    /\ Shown.selectedChapter
    /\ Shown.pageIndex > 0
    /\ home' = <<[Shown EXCEPT !.pageIndex = Shown.pageIndex - 2]>>
    /\ HomeUnchanged

NextButton ==
    /\ Shown.selectedChapter
    /\ Shown.pageIndex < Shown.pagesLength - 1
    /\ home' = <<[Shown EXCEPT !.pageIndex = Shown.pageIndex + 2]>>
    /\ HomeUnchanged

HomeNext ==
    \/ HomeNavigate
    \/ UpdatePages
    \/ BookViewNavigate
    \/ Back
    \/ ArrowLeft
    \/ ArrowRight
    \/ PreviousButton
    \/ NextButton

HomeSpec == HomeInit /\ [][HomeNext]_vars

\* the reader view shows pages of the selected chapter
ReaderViewShown ==
    /\ Shown.selectedChapter
    /\ ~Shown.updating
    /\ Shown.pagesLength >= 1

\* C30: in the two-page reader view of a chapter with at least one page,
\* after any anchor navigations, ArrowLeft/ArrowRight presses and clicks on
\* the previous/next buttons while they are shown, pageIndex is within
\* 0..pages.length-1, so the left page of the spread exists.
C30_PageIndexInRange ==
    ReaderViewShown =>
        /\ Shown.pageIndex >= 0
        /\ Shown.pageIndex <= Shown.pagesLength - 1

\* what the code does keep: pageIndex never leaves -1..pages of the longest
\* chapter
C30_PageIndexBounded ==
    /\ Shown.pageIndex >= 0 - 1
    /\ Shown.pageIndex <= MaxViewPages

====
